---- MODULE Spec2Model ----
(***************************************************************************)
(* Verification model of the WuzAPI <-> Chatwoot bridge.                   *)
(*                                                                         *)
(* Two specifications share the variables:                                 *)
(*   Spec         the handlers, use cases and adapters assembled through   *)
(*                their constructors and driven with webhook payloads;     *)
(*   SpecService  the HTTP service as assembled by the dependency          *)
(*                registry (routes, lifespan, /health).                    *)
(*                                                                         *)
(* Python strings that the code searches, strips or concatenates are       *)
(* sequences of tokens (a token never straddles a pattern the code looks   *)
(* for); enumerated strings (event names, types) are TLA+ strings.         *)
(***************************************************************************)
EXTENDS Integers, Sequences, FiniteSets, TLC

VARIABLES
    now,        \* wall clock (seconds), read by the cache adapters
    cache,      \* the cache adapter the use cases hold: [kind, connected, store]
    wuzapi,     \* the WuzAPIClient: [cache_repo: is a cache attached]
    converter,  \* the audio converter handed to the send use case: [present, ffmpeg]
    handlerCfg, \* WuzAPIWebhookHandler fields: [qr_use_case, session_notifier]
    cw,         \* the Chatwoot server: [nextMsgId: the id its next message gets]
    notifier,   \* ChatwootSessionNotifier memo: [contact_id, conversation_id]
    last,       \* the request being answered: [op, payload, resp, calls]
    reg,        \* the registry's memoized singletons (SpecService)
    env,        \* the environment of the service: [redisUp, ffmpeg]
    health,     \* the cache type the last /health reported
    relay,      \* webhooks in flight between the three systems (SpecRelay)
    tasks       \* the tasks of the event loop that are suspended at an await

vars == <<now, cache, wuzapi, converter, handlerCfg, cw, notifier, last, reg, env, health, relay, tasks>>

-----------------------------------------------------------------------------
(* Bounds of the model *)

MaxTime == 60
MaxCwMsgId == 1
\* how many message ids a relay chain uses before the ids are used again
MaxRelay == 3
\* how many tasks call into the registry or the use case at the same time
MaxCallers == 4
\* how far the clock moves between two requests
TickStep == 30

(* Program constants *)

AntiLoopTextTTL == 30
AntiLoopMediaTTL == 60
ConversationTTL == 3600

-----------------------------------------------------------------------------
(* Token-sequence strings *)

None == "<None>"

RECURSIVE Remove(_, _)
\* str.replace(tok, '')
Remove(s, tok) ==
    IF s = <<>> THEN <<>>
    ELSE IF Head(s) = tok THEN Remove(Tail(s), tok)
         ELSE <<Head(s)>> \o Remove(Tail(s), tok)

\* tok in str
Contains(s, tok) == \E i \in 1..Len(s) : s[i] = tok

\* the two tokens a, b side by side in str
ContainsPair(s, a, b) == \E i \in 1..(Len(s) - 1) : s[i] = a /\ s[i + 1] = b

RECURSIVE UpTo(_, _)
\* str.split(tok)[0]
UpTo(s, tok) ==
    IF s = <<>> \/ Head(s) = tok THEN <<>>
    ELSE <<Head(s)>> \o UpTo(Tail(s), tok)

\* str.lower(), token by token
LowerTok(t) ==
    IF t = "WAV" THEN "wav" ELSE IF t = "OGG" THEN "ogg"
    ELSE IF t = "QR" THEN "qr" ELSE IF t = "Status" THEN "status" ELSE t
Lower(s) == [i \in 1..Len(s) |-> LowerTok(s[i])]

\* digit blocks and their lengths in characters
DigitToks == {"573001234567", "12345"}
Width(t) == IF t = "573001234567" THEN 12 ELSE IF t = "12345" THEN 5 ELSE 1

RECURSIVE StrLen(_)
StrLen(s) == IF s = <<>> THEN 0 ELSE Width(Head(s)) + StrLen(Tail(s))

\* re.match(r'^\d+$', s)
AllDigits(s) == s # <<>> /\ \A i \in 1..Len(s) : s[i] \in DigitToks

-----------------------------------------------------------------------------
(* Cache adapters: RedisCache and InMemoryCache behind CacheRepository *)

\* the value a key holds: <<"str", 1>> is the string "1", <<"int", n>> the integer n
StrOne == <<"str", 1>>
IntVal(n) == <<"int", n>>

\* what a cache read returns for a missing key (Python None)
NoValue == <<"none", 0>>

\* Python truthiness of a cache read
Truthy(v) == v[1] # "none" /\ v[2] # 0

\* Python None where an integer id is expected
NoId == 0

\* f"chatwoot:conv:{phone}"
ConvKey(phone) == <<"chatwoot:conv:">> \o phone

\* f"synced_to_chatwoot:{chatwoot_msg_id}" and f"sent_from_chatwoot:{msg_id}"
SyncedKey(id) == <<"synced_to_chatwoot:", ToString(id)>>
SentKey(id) == <<"sent_from_chatwoot:", id>>

\* an entry that is stored and has not expired
Live(c, key) == key \in DOMAIN c.store /\ now < c.store[key].expires

\* mutant: the read always misses
get_conversation_id_miss(c, phone) == <<NoValue, c>>

\* mutant: an entry that is read is removed
get_conversation_id_evict(c, phone) ==
    IF Live(c, ConvKey(phone))
    THEN <<IntVal(c.store[ConvKey(phone)].value[2]),
           [c EXCEPT !.store = [k \in (DOMAIN c.store) \ {ConvKey(phone)} |-> c.store[k]]]>>
    ELSE <<NoValue, c>>

\* mutant: the in-memory adapter does not look at the expiry time
get_conversation_id_no_expiry(c, phone) ==
    IF c.kind = "redis"
    THEN IF c.connected /\ Live(c, ConvKey(phone))
         THEN <<IntVal(c.store[ConvKey(phone)].value[2]), c>>
         ELSE <<NoValue, c>>
    ELSE IF ConvKey(phone) \in DOMAIN c.store
         THEN <<c.store[ConvKey(phone)].value, c>>
         ELSE <<NoValue, c>>

\* get_conversation_id: <<value or None, adapter afterwards>>
get_conversation_id(c, phone) ==
    LET key == ConvKey(phone) IN
    IF c.kind = "redis"
    THEN IF ~c.connected THEN <<NoValue, c>>
         ELSE IF Live(c, key)
              THEN <<IntVal(c.store[key].value[2]), c>>
              ELSE <<NoValue, c>>
    ELSE IF key \in DOMAIN c.store
         THEN IF now < c.store[key].expires
              THEN <<c.store[key].value, c>>
              ELSE <<NoValue, [c EXCEPT !.store = [k \in (DOMAIN c.store) \ {key} |-> c.store[k]]]>>
         ELSE <<NoValue, c>>

\* mutant: the write is dropped
set_conversation_id_dropped(c, phone, value, ttl) == c

\* mutant: a key that is already stored keeps its expiry time
set_conversation_id_keep_expiry(c, phone, value, ttl) ==
    LET key == ConvKey(phone)
        entry == [value |-> value,
                  expires |-> IF key \in DOMAIN c.store THEN c.store[key].expires ELSE now + ttl]
    IN IF c.kind = "redis" /\ ~c.connected THEN c
       ELSE [c EXCEPT !.store = [k \in (DOMAIN c.store) \cup {key} |->
                                     IF k = key THEN entry ELSE c.store[k]]]

\* set_conversation_id: the adapter afterwards
set_conversation_id(c, phone, value, ttl) ==
    LET key == ConvKey(phone)
        entry == [value |-> value, expires |-> now + ttl]
    IN IF c.kind = "redis" /\ ~c.connected THEN c
       ELSE [c EXCEPT !.store = [k \in (DOMAIN c.store) \cup {key} |->
                                     IF k = key THEN entry ELSE c.store[k]]]

\* InMemoryCache.delete_conversation_id: the adapter afterwards
delete_conversation_id(c, phone) ==
    [c EXCEPT !.store = [k \in (DOMAIN c.store) \ {ConvKey(phone)} |-> c.store[k]]]

\* Redis drops a key when its TTL runs out; the in-memory map keeps it until read
Expire(c, t) ==
    IF c.kind = "redis"
    THEN [c EXCEPT !.store = [k \in {x \in DOMAIN c.store : t < c.store[x].expires} |-> c.store[k]]]
    ELSE c

EmptyStore == [k \in {} |-> 0]

-----------------------------------------------------------------------------
(* The world a request runs in: what the adapters read and write, and the   *)
(* outbound calls the request has made so far                               *)

World == [cache |-> cache, cw |-> cw, notifier |-> notifier, calls |-> <<>>]

\* an outbound call and what the other side answered
Call(op, to, body, name, mime, reply) ==
    [op |-> op, to |-> to, body |-> body, name |-> name, mime |-> mime, reply |-> reply]

Refused == "<refused>"
Accepted(ok) == IF ok THEN "<accepted>" ELSE Refused

Log(w, c) == [w EXCEPT !.calls = Append(w.calls, c)]

Ret(w, value) == [w |-> w, value |-> value]

\* x = e, then F(x): the awaited result is computed once and named
Bind(e, F(_)) == CHOOSE y \in {F(x) : x \in {e}} : TRUE

WuzapiSendOps == {"send_text_message", "send_image_message", "send_video_message",
                  "send_document_message", "send_audio_message"}

-----------------------------------------------------------------------------
(* WuzAPIClient: the send surface.  o.wzOk: WuzAPI answered 200/201;        *)
(* o.wzId: data.Id of the answer (None when missing)                        *)

send_text_message(w, phone, message, o) ==
    LET phone_clean == Remove(phone, "+")
        w1 == Log(w, Call("send_text_message", phone_clean, message, <<>>, <<>>,
                          IF o.wzOk THEN o.wzId ELSE Refused))
    IN IF o.wzOk
       THEN IF wuzapi.cache_repo /\ o.wzId # None
            THEN Ret([w1 EXCEPT !.cache = set_conversation_id(w1.cache, SentKey(o.wzId), StrOne, AntiLoopTextTTL)],
                     TRUE)
            ELSE Ret(w1, TRUE)
       ELSE Ret(w1, FALSE)

send_image_message(w, phone, image_url, caption, o) ==
    Ret(Log(w, Call("send_image_message", Remove(phone, "+"), image_url, caption, <<>>, Accepted(o.wzOk))), o.wzOk)

send_video_message(w, phone, video_url, caption, o) ==
    Ret(Log(w, Call("send_video_message", Remove(phone, "+"), video_url, caption, <<>>, Accepted(o.wzOk))), o.wzOk)

send_document_message(w, phone, document_url, filename, o) ==
    Ret(Log(w, Call("send_document_message", Remove(phone, "+"), document_url, filename, <<>>, Accepted(o.wzOk))),
        o.wzOk)

\* f"data:{mime};base64,{payload}"
DataUri(mime, payload) == <<"data:">> \o mime \o <<";base64,", payload>>

\* f"data:audio/ogg;base64,{audio_base64}" with MimeType = mime_type
send_audio_message(w, phone, audio_bytes, mime_type, o) ==
    Ret(Log(w, Call("send_audio_message", Remove(phone, "+"),
                    DataUri(<<"audio/", "ogg">>, audio_bytes), <<>>, mime_type, Accepted(o.wzOk))), o.wzOk)

-----------------------------------------------------------------------------
(* FFmpegAudioConverter *)

needs_conversion(content_type) ==
    LET l == Lower(content_type)
    IN ~(ContainsPair(l, "audio/", "ogg") \/ ContainsPair(l, "audio/", "opus"))

is_conversion_available == converter.ffmpeg

\* o.convOk: ffmpeg exits 0 and leaves an output file
convert_to_ogg_opus(audio_bytes, o) ==
    IF ~is_conversion_available THEN None
    ELSE IF o.convOk THEN "<ogg-opus-bytes>" ELSE None

OggOpus == <<"audio/", "ogg", "; codecs=opus">>

-----------------------------------------------------------------------------
(* SendMessageToWhatsAppUseCase *)

\* mutant: the sender type is not checked
should_process_any_sender(event_data) ==
    /\ event_data.event = "message_created"
    /\ event_data.message_type = "outgoing"
    /\ ~event_data.private

should_process(event_data) ==
    /\ event_data.event = "message_created"
    /\ event_data.message_type = "outgoing"
    /\ ~event_data.private
    /\ event_data.sender_type \in {"user", "agent_bot"}

\* mutant: only the + is stripped
extract_phone_plus_only(event_data) == Remove(event_data.source_id, "+")

\* source_id.replace('+', '').replace('group_', '')
extract_phone(event_data) == Remove(Remove(event_data.source_id, "+"), "group_")

send_text(w, phone, content, o) == send_text_message(w, phone, content, o)

\* o.dlOk: the attachment URL answered 200 with a body; o.ctype: its content-type
download_file(w, url, o) ==
    IF o.dlOk
    THEN Ret(Log(w, Call("download_file", <<>>, url, <<>>, o.ctype, Accepted(TRUE))), <<"<source-bytes>", o.ctype>>)
    ELSE Ret(Log(w, Call("download_file", <<>>, url, <<>>, <<>>, Refused)), <<None, <<>>>>)

send_audio_as_document(w, phone, audio_bytes, content_type, o) ==
    LET ext  == IF Contains(content_type, "wav") THEN "wav"
                ELSE IF Contains(content_type, "mp3") \/ Contains(content_type, "mpeg") THEN "mp3"
                ELSE "ogg"
        mime == IF ext = "wav" THEN <<"audio/", "wav">>
                ELSE IF ext = "mp3" THEN <<"audio/", "mpeg">>
                ELSE <<"audio/", "ogg">>
        filename == <<"audio.", ext>>
        data_uri == DataUri(<<"application/", "octet-stream">>, audio_bytes)
    IN send_document_message(w, phone, data_uri, filename, o)

\* mutant: when the conversion returns nothing the source bytes go out as a voice note
send_audio_unconverted(w, phone, audio_url, o) ==
    Bind(download_file(w, audio_url, o), LAMBDA d :
    LET audio_bytes == d.value[1]
        content_type == d.value[2]
    IN IF audio_bytes = None THEN Ret(d.w, FALSE)
       ELSE IF converter.present /\ needs_conversion(content_type)
       THEN IF ~is_conversion_available
            THEN send_audio_as_document(d.w, phone, audio_bytes, content_type, o)
            ELSE LET ogg_bytes == convert_to_ogg_opus(audio_bytes, o)
                 IN IF ogg_bytes = None
                    THEN send_audio_message(d.w, phone, audio_bytes, content_type, o)
                    ELSE send_audio_message(d.w, phone, ogg_bytes, OggOpus, o)
       ELSE send_audio_message(d.w, phone, audio_bytes, content_type, o))

\* mutant: a voice note that WuzAPI refused is sent again as a document
send_audio_retry(w, phone, audio_url, o) ==
    Bind(download_file(w, audio_url, o), LAMBDA d :
    LET audio_bytes == d.value[1]
        content_type == d.value[2]
        voice(bytes, type) ==
            Bind(send_audio_message(d.w, phone, bytes, type, o), LAMBDA r :
            IF r.value THEN r ELSE send_audio_as_document(r.w, phone, audio_bytes, content_type, o))
    IN IF audio_bytes = None THEN Ret(d.w, FALSE)
       ELSE IF converter.present /\ needs_conversion(content_type)
       THEN IF ~is_conversion_available
            THEN send_audio_as_document(d.w, phone, audio_bytes, content_type, o)
            ELSE LET ogg_bytes == convert_to_ogg_opus(audio_bytes, o)
                 IN IF ogg_bytes = None
                    THEN send_audio_as_document(d.w, phone, audio_bytes, content_type, o)
                    ELSE voice(ogg_bytes, OggOpus)
       ELSE voice(audio_bytes, content_type))

send_audio(w, phone, audio_url, o) ==
    Bind(download_file(w, audio_url, o), LAMBDA d :
    LET audio_bytes == d.value[1]
        content_type == d.value[2]
    IN IF audio_bytes = None THEN Ret(d.w, FALSE)
       ELSE IF converter.present /\ needs_conversion(content_type)
       THEN IF ~is_conversion_available
            THEN send_audio_as_document(d.w, phone, audio_bytes, content_type, o)
            ELSE LET ogg_bytes == convert_to_ogg_opus(audio_bytes, o)
                 IN IF ogg_bytes = None
                    THEN send_audio_as_document(d.w, phone, audio_bytes, content_type, o)
                    ELSE send_audio_message(d.w, phone, ogg_bytes, OggOpus, o)
       ELSE send_audio_message(d.w, phone, audio_bytes, content_type, o))

send_multimedia(w, phone, content, attachment, o) ==
    LET file_type == attachment.file_type
        data_url  == attachment.data_url
        file_name == attachment.file_name
    IN IF data_url = <<>> THEN Ret(w, FALSE)
       ELSE IF file_type = "image" THEN send_image_message(w, phone, data_url, content, o)
       ELSE IF file_type = "video" THEN send_video_message(w, phone, data_url, content, o)
       ELSE IF file_type = "audio" THEN send_audio(w, phone, data_url, o)
       ELSE IF file_type = "file"  THEN send_document_message(w, phone, data_url, file_name, o)
       ELSE LET fallback == IF content # <<>>
                            THEN content \o <<"\n\n", "[Archivo: ">> \o file_name \o <<"]">>
                            ELSE <<"[Archivo: ">> \o file_name \o <<"]">>
            IN send_text_message(w, phone, fallback, o)

\* mutant: after the first attachment the text goes out as a message of its own
Send_dispatch_text_too(w, event_data, o) ==
    LET phone == extract_phone(event_data)
    IN IF phone = <<>> THEN Ret(w, FALSE)
       ELSE IF event_data.attachments # <<>>
       THEN Bind(send_multimedia(w, phone, event_data.content, event_data.attachments[1], o), LAMBDA r :
            IF event_data.content # <<>> THEN send_text(r.w, phone, event_data.content, o) ELSE r)
       ELSE IF event_data.content # <<>>
       THEN send_text(w, phone, event_data.content, o)
       ELSE Ret(w, FALSE)

Send_dispatch(w, event_data, o) ==
    LET phone == extract_phone(event_data)
    IN IF phone = <<>> THEN Ret(w, FALSE)
       ELSE IF event_data.attachments # <<>>
       THEN send_multimedia(w, phone, event_data.content, event_data.attachments[1], o)
       ELSE IF event_data.content # <<>>
       THEN send_text(w, phone, event_data.content, o)
       ELSE Ret(w, FALSE)

\* mutant: no loop guard
Send_execute_no_guard(w, event_data, o) ==
    IF ~should_process(event_data) THEN Ret(w, FALSE) ELSE Send_dispatch(w, event_data, o)

\* mutant: the eligibility filter runs before the loop guard
Send_execute_filter_first(w, event_data, o) ==
    IF ~should_process(event_data) THEN Ret(w, FALSE)
    ELSE Bind(IF event_data.id # 0
              THEN get_conversation_id(w.cache, SyncedKey(event_data.id))
              ELSE <<NoValue, w.cache>>, LAMBDA g :
         Bind([w EXCEPT !.cache = g[2]], LAMBDA w1 :
         IF event_data.id # 0 /\ Truthy(g[1]) THEN Ret(w1, TRUE)
         ELSE Send_dispatch(w1, event_data, o)))

Send_execute(w, event_data, o) ==
    LET message_id == event_data.id
    IN Bind(IF message_id # 0
            THEN get_conversation_id(w.cache, SyncedKey(message_id))
            ELSE <<NoValue, w.cache>>, LAMBDA g :
       Bind([w EXCEPT !.cache = g[2]], LAMBDA w1 :
       IF message_id # 0 /\ Truthy(g[1]) THEN Ret(w1, TRUE)
       ELSE IF ~should_process(event_data) THEN Ret(w1, FALSE)
       ELSE Send_dispatch(w1, event_data, o)))

-----------------------------------------------------------------------------
(* PhoneNumber *)

StatusJid == <<"status@broadcast">>

PhoneNumber_is_group(raw) == Contains(raw, "@g.us")

PhoneNumber_is_status(raw) == raw = StatusJid

PhoneNumber_clean(raw) ==
    IF raw = StatusJid THEN <<"status_broadcast">>
    ELSE LET c == Remove(Remove(Remove(raw, "@s.whatsapp.net"), "@g.us"), "+")
         IN IF Contains(c, ":") THEN UpTo(c, ":") ELSE c

PhoneNumber_formatted(raw) ==
    IF PhoneNumber_is_status(raw) THEN <<"+", "status_broadcast">>
    ELSE IF PhoneNumber_is_group(raw) THEN <<"+", "group_">> \o Remove(raw, "@g.us")
    ELSE LET c == PhoneNumber_clean(raw)
         IN IF c # <<>> /\ Head(c) = "+" THEN c ELSE <<"+">> \o c

\* the raw JID of the accepted phone, or <<>> for None
from_whatsapp_jid(jid) ==
    IF jid = <<>> THEN <<>>
    ELSE IF Contains(jid, "@newsletter") THEN <<>>
    ELSE IF Contains(jid, "@lid") THEN <<>>
    ELSE IF jid = StatusJid THEN jid
    ELSE IF ~PhoneNumber_is_group(jid)
            /\ (~AllDigits(PhoneNumber_clean(jid))
                \/ StrLen(PhoneNumber_clean(jid)) < 10
                \/ StrLen(PhoneNumber_clean(jid)) > 15)
         THEN <<>>
    ELSE jid

-----------------------------------------------------------------------------
(* MessageType and WhatsAppMessage *)

MessageTypeValues == {"text", "image", "video", "audio", "document", "sticker",
                      "location", "contact", "ptt", "reaction", "unknown"}

TYPE_MAPPINGS ==
    [t \in {"ptt", "voiceMessage", "audioMessage", "imageMessage", "videoMessage", "documentMessage",
            "documentWithCaptionMessage", "stickerMessage", "locationMessage", "contactMessage",
            "reactionMessage", "reaction", "url"} |->
        CASE t \in {"ptt", "voiceMessage", "audioMessage"} -> "audio"
          [] t = "imageMessage" -> "image"
          [] t = "videoMessage" -> "video"
          [] t \in {"documentMessage", "documentWithCaptionMessage"} -> "document"
          [] t = "stickerMessage" -> "sticker"
          [] t = "locationMessage" -> "location"
          [] t = "contactMessage" -> "contact"
          [] t \in {"reactionMessage", "reaction"} -> "reaction"
          [] t = "url" -> "text"]

\* the message type from_wuzapi_event resolves
resolve_message_type(info, message) ==
    LET type_str == IF info.Type = "media" /\ info.MediaType # "" THEN info.MediaType ELSE info.Type
    IN IF type_str \in MessageTypeValues THEN type_str
       ELSE IF type_str \in DOMAIN TYPE_MAPPINGS THEN TYPE_MAPPINGS[type_str]
       ELSE IF "audioMessage" \in message.keys THEN "audio"
       ELSE IF "imageMessage" \in message.keys THEN "image"
       ELSE IF "videoMessage" \in message.keys THEN "video"
       ELSE IF "documentMessage" \in message.keys THEN "document"
       ELSE "unknown"

\* what from_wuzapi_event returns for None
NoMessage == [parsed |-> FALSE]

\* the WhatsAppMessage built from the event
from_wuzapi_event(event_data) ==
    LET info == event_data.Info
        chat == IF Contains(info.Chat, "@lid")
                THEN IF Contains(info.SenderAlt, "@s.whatsapp.net") THEN info.SenderAlt ELSE <<>>
                ELSE info.Chat
    IN IF ~event_data.eventIsDict THEN NoMessage
       ELSE IF info.ID = None \/ chat = <<>> THEN NoMessage
       ELSE IF from_whatsapp_jid(chat) = <<>> THEN NoMessage
       ELSE [parsed       |-> TRUE,
             message_id   |-> info.ID,
             sender       |-> chat,
             message_type |-> resolve_message_type(info, event_data.Message),
             is_from_me   |-> info.IsFromMe,
             is_group     |-> info.IsGroup,
             raw_data     |-> event_data.Message,
             group_id     |-> chat,
             push_name    |-> info.PushName]

\* message.metadata.get('sender_name', 'Usuario'): PushName of a group event
sender_name(message) == message.push_name

\* mutant: the plain 'conversation' text is not read
extract_text_content_no_plain(message) ==
    IF "extendedTextMessage" \in message.raw_data.keys THEN message.raw_data.extendedText ELSE <<>>

extract_text_content(message) ==
    LET m == message.raw_data
    IN IF "conversation" \in m.keys THEN m.conversation
       ELSE IF "extendedTextMessage" \in m.keys THEN m.extendedText
       ELSE IF m.keys \cap {"imageMessage", "videoMessage", "documentMessage",
                            "documentWithCaptionMessage"} # {} THEN m.caption
       ELSE <<>>

\* the media object's fields, or None
extract_media_info(message) ==
    LET m == message.raw_data
        key == CASE message.message_type = "image" -> "imageMessage"
                 [] message.message_type = "video" -> "videoMessage"
                 [] message.message_type \in {"audio", "ptt"} -> "audioMessage"
                 [] message.message_type = "document" -> "documentMessage"
                 [] OTHER -> None
    \* the branch for documentWithCaptionMessage is taken only when the type has no key
    IN IF key = None
       THEN IF message.message_type = "document" /\ "documentWithCaptionMessage" \in m.keys
            THEN IF m.mediaFields THEN "<media-info>" ELSE None
            ELSE None
       ELSE IF key \notin m.keys THEN None
       ELSE IF m.mediaFields THEN "<media-info>" ELSE None

Upper(t) == CASE t = "image" -> "IMAGE" [] t = "video" -> "VIDEO" [] t = "audio" -> "AUDIO"
              [] t = "document" -> "DOCUMENT" [] t = "sticker" -> "STICKER"
              [] t = "contact" -> "CONTACT" [] t = "reaction" -> "REACTION"
              [] t = "ptt" -> "PTT" [] t = "location" -> "LOCATION" [] t = "text" -> "TEXT"
              [] OTHER -> "UNKNOWN"

-----------------------------------------------------------------------------
(* The Chatwoot server and ChatwootClient.  o.contactOk, o.convOk, o.msgOk:  *)
(* Chatwoot serves the contact, conversation and message requests            *)

ContactIdOf(phone_clean) ==
    IF phone_clean = <<"573001234567">> THEN 1
    ELSE IF phone_clean = <<"status_broadcast">> THEN 2
    ELSE 3

ConversationIdOf(contact_id) == 10 + contact_id

\* mutant: a refused contact request still hands an id to the caller
create_or_get_contact_unreported(w, phone, name, avatar_url, o) ==
    LET phone_clean == Remove(Remove(phone, "+"), "group_")
        id == IF o.contactOk THEN ContactIdOf(phone_clean) ELSE NoId
    IN Ret(Log(w, Call("create_or_get_contact", phone_clean, name, <<>>, avatar_url, id)), ContactIdOf(phone_clean))

create_or_get_contact(w, phone, name, avatar_url, o) ==
    LET phone_clean == Remove(Remove(phone, "+"), "group_")
        id == IF o.contactOk THEN ContactIdOf(phone_clean) ELSE NoId
    IN Ret(Log(w, Call("create_or_get_contact", phone_clean, name, <<>>, avatar_url, id)), id)

create_or_get_conversation(w, contact_id, source_id, o) ==
    LET id == IF o.conversationOk THEN ConversationIdOf(contact_id) ELSE NoId
    IN Ret(Log(w, Call("create_or_get_conversation", contact_id, source_id, <<>>, <<>>, id)), id)

send_message(w, conversation_id, content, message_type, o) ==
    LET id == IF o.msgOk THEN w.cw.nextMsgId ELSE NoId
        w1 == Log(w, Call("send_message", conversation_id, content, message_type, <<>>, id))
    IN IF o.msgOk THEN Ret([w1 EXCEPT !.cw.nextMsgId = @ + 1], id) ELSE Ret(w1, NoId)

send_message_with_attachments(w, conversation_id, content, message_type, file_data, filename, mimetype, o) ==
    IF file_data = None \/ filename = None
    THEN send_message(w, conversation_id, content, message_type, o)
    ELSE LET id == IF o.msgOk THEN w.cw.nextMsgId ELSE NoId
             w1 == Log(w, Call("send_message_with_attachments", conversation_id, content, message_type, mimetype, id))
         IN IF o.msgOk THEN Ret([w1 EXCEPT !.cw.nextMsgId = @ + 1], id) ELSE Ret(w1, NoId)

ChatwootOps == {"create_or_get_contact", "create_or_get_conversation", "send_message",
                "send_message_with_attachments"}

\* o.avatar: WuzAPI knows a profile photo
get_user_avatar(w, phone, o) ==
    Ret(Log(w, Call("get_user_avatar", phone, <<>>, <<>>, <<>>, Accepted(o.avatar))),
        IF o.avatar THEN <<"http://avatar">> ELSE <<>>)

-----------------------------------------------------------------------------
(* MediaDownloader.  o.mediaOk: WuzAPI returns the decrypted media *)

download_from_wuzapi_endpoint(w, message_id, media_type, media_info, o) ==
    IF media_type \notin {"audio", "image", "video", "document"} THEN Ret(w, None)
    ELSE Ret(Log(w, Call("download_from_wuzapi_endpoint", message_id, <<>>, media_type, <<>>, Accepted(o.mediaOk))),
             IF o.mediaOk THEN "<media-data>" ELSE None)

-----------------------------------------------------------------------------
(* SyncMessageToChatwootUseCase *)

\* f"**{sender_name}:** {content}" for group messages
group_prefix(message, content) ==
    IF message.is_group
    THEN <<"**">> \o sender_name(message) \o <<":** ">> \o content
    ELSE content

media_type_map(message_type) ==
    IF message_type = "ptt" THEN "audio" ELSE message_type

\* mutant: a failed download is answered with the placeholder instead of giving up
process_multimedia_message_fallback(w, message, conversation_id, message_type, o) ==
    LET media_type == media_type_map(message.message_type)
        media_info == extract_media_info(message)
        fallback   == group_prefix(message, <<"[", Upper(media_type), " - Error Info]">>)
    IN IF media_info = None
       THEN Bind(send_message(w, conversation_id, fallback, message_type, o), LAMBDA r :
            Ret(r.w, r.value # NoId))
       ELSE Bind(download_from_wuzapi_endpoint(w, message.message_id, media_type, media_info, o), LAMBDA d :
            IF d.value = None
            THEN Bind(send_message(d.w, conversation_id, fallback, message_type, o), LAMBDA r :
                 Ret(r.w, r.value # NoId))
            ELSE LET text    == extract_text_content(message)
                     caption == group_prefix(message, IF text # <<>> THEN text ELSE <<Upper(media_type)>>)
                 IN Bind(send_message_with_attachments(d.w, conversation_id, caption, message_type,
                                                       d.value, "<filename>", "<mimetype>", o), LAMBDA r :
                    IF r.value # NoId
                    THEN IF message.is_from_me
                         THEN Ret([r.w EXCEPT !.cache = set_conversation_id(@, SyncedKey(r.value), StrOne,
                                                                            AntiLoopMediaTTL)], TRUE)
                         ELSE Ret(r.w, TRUE)
                    ELSE Ret(r.w, FALSE)))

\* the boolean is the truthiness of what the code returns
process_multimedia_message(w, message, conversation_id, message_type, o) ==
    LET media_type == media_type_map(message.message_type)
        media_info == extract_media_info(message)
    IN IF media_info = None
       THEN Bind(send_message(w, conversation_id,
                              group_prefix(message, <<"[", Upper(media_type), " - Error Info]">>),
                              message_type, o), LAMBDA r :
            Ret(r.w, r.value # NoId))
       ELSE Bind(download_from_wuzapi_endpoint(w, message.message_id, media_type, media_info, o), LAMBDA d :
            IF d.value = None THEN Ret(d.w, FALSE)
            ELSE LET text    == extract_text_content(message)
                     caption == group_prefix(message, IF text # <<>> THEN text ELSE <<Upper(media_type)>>)
                 IN Bind(send_message_with_attachments(d.w, conversation_id, caption, message_type,
                                                       d.value, "<filename>", "<mimetype>", o), LAMBDA r :
                    IF r.value # NoId
                    THEN IF message.is_from_me
                         THEN Ret([r.w EXCEPT !.cache = set_conversation_id(@, SyncedKey(r.value), StrOne,
                                                                            AntiLoopMediaTTL)], TRUE)
                         ELSE Ret(r.w, TRUE)
                    ELSE Ret(r.w, FALSE)))

\* mutant: the text branch marks every message it sent, self-sent or not
Sync_deliver_marks_all(w, message, conversation_id, o) ==
    LET message_type == IF message.is_from_me THEN "outgoing" ELSE "incoming"
    IN IF message.message_type \in {"image", "video", "audio", "ptt", "document", "sticker"}
       THEN process_multimedia_message(w, message, conversation_id, message_type, o)
       ELSE IF message.message_type = "text"
       THEN LET content == group_prefix(message, extract_text_content(message))
            IN IF content # <<>>
               THEN Bind(send_message(w, conversation_id, content, message_type, o), LAMBDA r :
                    IF r.value # NoId
                    THEN Ret([r.w EXCEPT !.cache = set_conversation_id(@, SyncedKey(r.value), StrOne,
                                                                       AntiLoopTextTTL)], TRUE)
                    ELSE Ret(r.w, FALSE))
               ELSE Ret(w, FALSE)
       ELSE IF message.message_type = "location" THEN Ret(w, FALSE)
       ELSE Bind(send_message(w, conversation_id,
                              group_prefix(message, <<"[", Upper(message.message_type), "]">>),
                              message_type, o), LAMBDA r :
            Ret(r.w, r.value # NoId))

\* the branches of execute after the conversation is resolved
Sync_deliver(w, message, conversation_id, o) ==
    LET message_type == IF message.is_from_me THEN "outgoing" ELSE "incoming"
    IN IF message.message_type \in {"image", "video", "audio", "ptt", "document", "sticker"}
       THEN process_multimedia_message(w, message, conversation_id, message_type, o)
       ELSE IF message.message_type = "text"
       THEN LET content == group_prefix(message, extract_text_content(message))
            IN IF content # <<>>
               THEN Bind(send_message(w, conversation_id, content, message_type, o), LAMBDA r :
                    IF r.value # NoId /\ message.is_from_me
                    THEN Ret([r.w EXCEPT !.cache = set_conversation_id(@, SyncedKey(r.value), StrOne,
                                                                       AntiLoopTextTTL)], TRUE)
                    ELSE Ret(r.w, r.value # NoId))
               ELSE Ret(w, FALSE)
       \* message.extract_location_info() does not exist: AttributeError, caught by execute
       ELSE IF message.message_type = "location" THEN Ret(w, FALSE)
       ELSE Bind(send_message(w, conversation_id,
                              group_prefix(message, <<"[", Upper(message.message_type), "]">>),
                              message_type, o), LAMBDA r :
            Ret(r.w, r.value # NoId))

Sync_execute(w, message, o) ==
    Bind(IF message.is_from_me
         THEN get_conversation_id(w.cache, SentKey(message.message_id))
         ELSE <<NoValue, w.cache>>, LAMBDA g :
    Bind([w EXCEPT !.cache = g[2]], LAMBDA w0 :
    IF message.is_from_me /\ Truthy(g[1]) THEN Ret(w0, TRUE)
    ELSE Bind(PhoneNumber_formatted(message.sender), LAMBDA phone :
         LET name == IF message.is_group THEN <<"[grupo] ">> \o message.group_id
                     ELSE IF message.push_name # <<>> THEN message.push_name ELSE phone
         IN Bind(IF ~message.is_group THEN get_user_avatar(w0, phone, o) ELSE Ret(w0, <<>>), LAMBDA a :
            Bind(create_or_get_contact(a.w, phone, name, a.value, o), LAMBDA c :
            IF c.value = NoId THEN Ret(c.w, FALSE)
            ELSE Bind(get_conversation_id(c.w.cache, phone), LAMBDA cg :
                 Bind([c.w EXCEPT !.cache = cg[2]], LAMBDA w2 :
                 Bind(IF Truthy(cg[1]) THEN Ret(w2, cg[1][2])
                      ELSE Bind(create_or_get_conversation(w2, c.value, phone, o), LAMBDA r :
                           IF r.value # NoId
                           THEN Ret([r.w EXCEPT !.cache = set_conversation_id(@, phone, IntVal(r.value),
                                                                              ConversationTTL)], r.value)
                           ELSE r), LAMBDA cv :
                 IF cv.value = NoId THEN Ret(cv.w, FALSE)
                 ELSE Sync_deliver(cv.w, message, cv.value, o)))))))))

-----------------------------------------------------------------------------
(* ChatwootSessionNotifier and HandleQREventUseCase *)

BotContactId == 9
BotSourceId == <<"wuzapi-session-bot">>

find_or_create_bot_contact(w, o) ==
    Ret(Log(w, Call("find_or_create_bot_contact", BotSourceId, <<>>, <<>>, <<>>,
                    IF o.contactOk THEN BotContactId ELSE NoId)),
        IF o.contactOk THEN BotContactId ELSE NoId)

ensure_contact_and_conversation(w, o) ==
    Bind(IF w.notifier.contact_id = NoId THEN find_or_create_bot_contact(w, o)
         ELSE Ret(w, w.notifier.contact_id), LAMBDA c :
    Bind([c.w EXCEPT !.notifier.contact_id = c.value], LAMBDA w1 :
    IF c.value = NoId THEN Ret(w1, FALSE)
    ELSE Bind(IF w1.notifier.conversation_id = NoId
              THEN create_or_get_conversation(w1, c.value, BotSourceId, o)
              ELSE Ret(w1, w1.notifier.conversation_id), LAMBDA v :
         Ret([v.w EXCEPT !.notifier.conversation_id = v.value], v.value # NoId))))

\* session.qr_bytes: base64 of the QR code, None when missing or undecodable
qr_bytes(qr_code) == IF qr_code = "<qr-base64>" THEN "<qr-png>" ELSE None

notify_qr(w, qr_code, o) ==
    Bind(ensure_contact_and_conversation(Log(w, Call("notify_qr", <<>>, <<>>, "qr_pending", <<>>, "")), o), LAMBDA e :
    IF ~e.value THEN Ret(e.w, FALSE)
    ELSE IF qr_bytes(qr_code) = None THEN Ret(e.w, FALSE)
    ELSE Bind(send_message_with_attachments(e.w, e.w.notifier.conversation_id, <<"<qr-notice>">>,
                                            "incoming", qr_bytes(qr_code), "qr_code.png", "image/png", o),
              LAMBDA r : Ret(r.w, r.value # NoId)))

notify_session(w, text, o) ==
    Bind(ensure_contact_and_conversation(w, o), LAMBDA e :
    IF ~e.value THEN Ret(e.w, FALSE)
    ELSE Bind(send_message(e.w, e.w.notifier.conversation_id, text, "incoming", o),
              LAMBDA r : Ret(r.w, r.value # NoId)))

\* WuzAPISession.from_connection_event(event_data, status)
from_connection_event(event_data, status) ==
    [instance_id |-> IF event_data.hasUserID THEN event_data.userID ELSE "", status |-> status]

notify_connected(w, session, o) ==
    notify_session(Log(w, Call("notify_connected", session.instance_id, <<>>, session.status, <<>>, "")),
                   <<"<connected-notice>">>, o)

notify_disconnected(w, session, o) ==
    notify_session(Log(w, Call("notify_disconnected", session.instance_id, <<>>, session.status, <<>>, "")),
                   <<"<disconnected-notice>">>, o)

\* mutant: the notifier is asked whatever the event carries
HandleQR_execute_unchecked(w, event_data, o) == notify_qr(w, event_data.qrCodeBase64, o)

HandleQR_execute(w, event_data, o) ==
    IF event_data.qrCodeBase64 \in {None, ""} THEN Ret(w, FALSE)
    ELSE notify_qr(w, event_data.qrCodeBase64, o)

-----------------------------------------------------------------------------
(* BaseWebhookHandler: the template method and its four responses *)

NoData == <<>>

Result(success, reason, data) == [raised |-> FALSE, success |-> success, reason |-> reason, data |-> data]

\* handle_event left through an exception
Raised == [raised |-> TRUE, success |-> FALSE, reason |-> "", data |-> NoData]

success_response(handler_name, result) ==
    [code |-> 200, status |-> "success", reason |-> "", data |-> result.data, handler |-> handler_name]

ignored_response(handler_name, result) ==
    [code |-> 200, status |-> "ignored", reason |-> result.reason, data |-> NoData, handler |-> handler_name]

error_response(handler_name, reason) ==
    [code |-> 400, status |-> "error", reason |-> reason, data |-> NoData, handler |-> handler_name]

exception_response(handler_name) ==
    [code |-> 500, status |-> "exception", reason |-> "", data |-> NoData, handler |-> handler_name]

\* mutant: an object without keys is refused
Base_validate_payload_non_empty(event_data) ==
    event_data.isDict /\ ("event" \in DOMAIN event_data => event_data.event # "unknown")
Base_validate_payload(event_data) == event_data.isDict

\* process_event with validate and handle supplied by the subclass
process_event(handler_name, valid, r) ==
    IF ~valid THEN Ret(r.w, error_response(handler_name, "invalid_payload"))
    ELSE IF r.value.raised THEN Ret(r.w, exception_response(handler_name))
    ELSE IF r.value.success THEN Ret(r.w, success_response(handler_name, r.value))
    ELSE Ret(r.w, ignored_response(handler_name, r.value))

-----------------------------------------------------------------------------
(* WuzAPIWebhookHandler *)

\* mutant: only the base validation
Wuzapi_validate_payload_base_only(event_data) == event_data.isDict

Wuzapi_validate_payload(event_data) ==
    Base_validate_payload(event_data) /\ event_data.hasType /\ event_data.hasUserID

\* mutant: every instance is accepted
validate_instance_id_any(user_id) == TRUE

validate_instance_id(user_id) == user_id = handlerCfg.expected_instance_id

\* self.logger.warning(text) of _validate_instance_id
warning(text) == Call("logger.warning", <<>>, text, <<>>, <<>>, "")

handle_qr_event(w, event_data, o) ==
    IF ~handlerCfg.qr_use_case THEN Ret(w, Result(FALSE, "qr_usecase_not_configured", NoData))
    ELSE Bind(HandleQR_execute(w, event_data, o), LAMBDA r :
         IF r.value THEN Ret(r.w, Result(TRUE, "", <<<<"event", "qr_notified">>>>))
         ELSE Ret(r.w, Result(FALSE, "qr_notification_failed", NoData)))

\* mutant: the notifier's outcome decides the answer
handle_connected_event_strict(w, event_data, o) ==
    Bind(notify_connected(w, from_connection_event(event_data, "connected"), o), LAMBDA r :
    Ret(r.w, Result(r.value, "notification_failed", <<<<"event", "connected">>>>)))

handle_connected_event(w, event_data, o) ==
    Ret(IF handlerCfg.session_notifier
        THEN notify_connected(w, from_connection_event(event_data, "connected"), o).w
        ELSE w,
        Result(TRUE, "", <<<<"event", "connected">>>>))

handle_disconnected_event(w, event_data, o) ==
    Ret(IF handlerCfg.session_notifier
        THEN notify_disconnected(w, from_connection_event(event_data, "disconnected"), o).w
        ELSE w,
        Result(TRUE, "", <<<<"event", "disconnected">>>>))

\* mutant: the event type is not looked at, everything is taken for a message
Wuzapi_handle_event_any_type(w, event_data, o) ==
    Bind(from_wuzapi_event(event_data), LAMBDA parsed_message :
    IF ~parsed_message.parsed THEN Ret(w, Result(FALSE, "parse_error", NoData))
    ELSE Bind(Sync_execute(w, parsed_message, o), LAMBDA r :
         Ret(r.w, Result(r.value, "sync_failed", NoData))))

Wuzapi_handle_event(w, event_data, o) ==
    LET event_type == IF event_data.hasType THEN event_data.type ELSE "Unknown"
        user_id    == IF event_data.hasUserID THEN event_data.userID ELSE "Unknown"
    IN IF ~validate_instance_id(user_id)
       THEN Ret(Log(Log(w, warning(<<"Esperado: ", handlerCfg.expected_instance_id>>)),
                    warning(<<"Recibido: ", user_id>>)),
                Result(FALSE, "wrong_user_id",
                          <<<<"expected", handlerCfg.expected_instance_id>>, <<"received", user_id>>>>))
       ELSE IF event_type = "QR" THEN handle_qr_event(w, event_data, o)
       ELSE IF event_type \in {"Connected", "LoggedIn"} THEN handle_connected_event(w, event_data, o)
       ELSE IF event_type \in {"Disconnected", "LoggedOut"} THEN handle_disconnected_event(w, event_data, o)
       ELSE IF event_type # "Message"
       THEN Ret(w, Result(FALSE, "not_message_event", <<<<"event_type", event_type>>>>))
       \* _log_event_structure: event_data.get('event', {}).get(...) on a non-dict
       ELSE IF ~event_data.eventIsDict THEN Ret(w, Raised)
       ELSE Bind(from_wuzapi_event(event_data), LAMBDA parsed_message :
            IF ~parsed_message.parsed THEN Ret(w, Result(FALSE, "parse_error", NoData))
            ELSE Bind(Sync_execute(w, parsed_message, o), LAMBDA r :
                 IF r.value
                 THEN Ret(r.w, Result(TRUE, "",
                          <<<<"message_id", parsed_message.message_id>>,
                            <<"message_type", parsed_message.message_type>>,
                            <<"sender", PhoneNumber_formatted(parsed_message.sender)>>>>))
                 ELSE Ret(r.w, Result(FALSE, "sync_failed", NoData))))

Wuzapi_process_event(w, event_data, o) ==
    Bind(IF Wuzapi_validate_payload(event_data) THEN Wuzapi_handle_event(w, event_data, o)
         ELSE Ret(w, Raised),
         LAMBDA r : process_event("WuzAPI", Wuzapi_validate_payload(event_data), r))

-----------------------------------------------------------------------------
(* ChatwootWebhookHandler *)

Chatwoot_handle_event(w, event_data, o) ==
    Bind(Send_execute(w, event_data, o), LAMBDA r :
    IF r.value
    THEN Ret(r.w, Result(TRUE, "", <<<<"event", event_data.event>>>>))
    ELSE Ret(r.w, Result(FALSE, "not_processed_or_ignored", <<<<"event", event_data.event>>>>)))

Chatwoot_process_event(w, event_data, o) ==
    Bind(IF Base_validate_payload(event_data) THEN Chatwoot_handle_event(w, event_data, o)
         ELSE Ret(w, Raised),
         LAMBDA r : process_event("Chatwoot", Base_validate_payload(event_data), r))

-----------------------------------------------------------------------------
(* Webhook payloads and upstream outcomes the model enumerates *)

ExpectedInstanceId == "inst-1"

Direct == <<"573001234567", "@s.whatsapp.net">>
Short  == <<"12345", "@s.whatsapp.net">>
Group  == <<"12345", "@g.us">>
Lid    == <<"12345", "@lid">>

Hola == <<"hola">>

Body(keys, conversation, caption, mediaFields) ==
    [keys |-> keys, conversation |-> conversation, extendedText |-> <<>>, caption |-> caption,
     mediaFields |-> mediaFields]

Info(id, chat, fromMe, type) ==
    [ID |-> id, Chat |-> chat, SenderAlt |-> <<>>, IsFromMe |-> fromMe, IsGroup |-> PhoneNumber_is_group(chat),
     Type |-> type, MediaType |-> "", PushName |-> <<"Ana">>]

WzEvent(type, userID, info, body) ==
    [isDict |-> TRUE, hasType |-> TRUE, type |-> type, hasUserID |-> TRUE, userID |-> userID,
     eventIsDict |-> TRUE, Info |-> info, Message |-> body, qrCodeBase64 |-> None]

TextBody == Body({"conversation"}, Hola, <<>>, FALSE)
NoBody   == Body({}, <<>>, <<>>, FALSE)

TextEvent(id, chat, fromMe) == WzEvent("Message", ExpectedInstanceId, Info(id, chat, fromMe, "text"), TextBody)

MessageEvents ==
    {TextEvent(id, Direct, fromMe) : id \in {"M1", "M2"}, fromMe \in BOOLEAN}
    \cup {TextEvent("M1", chat, FALSE) : chat \in {Short, Lid}}
    \cup {TextEvent(None, Direct, FALSE)}
    \cup {WzEvent("Message", ExpectedInstanceId, Info("M2", Direct, fromMe, "text"), NoBody) : fromMe \in BOOLEAN}
    \cup {WzEvent("Message", ExpectedInstanceId, Info("M2", Direct, TRUE, "media"),
                  Body({"imageMessage"}, <<>>, Hola, f)) : f \in BOOLEAN}
    \cup {WzEvent("Message", ExpectedInstanceId, Info("M2", Direct, FALSE, t), Body({k}, <<>>, <<>>, TRUE)) :
            <<t, k>> \in {<<"ptt", "audioMessage">>, <<"sticker", "stickerMessage">>,
                          <<"location", "locationMessage">>, <<"reaction", "reactionMessage">>,
                          <<"document", "documentWithCaptionMessage">>}}

SessionEvents ==
    {[WzEvent(t, ExpectedInstanceId, Info(None, <<>>, FALSE, ""), NoBody) EXCEPT !.qrCodeBase64 = q] :
        t \in {"QR"}, q \in {None, "", "<qr-base64>", "<not-base64>"}}
    \cup {WzEvent(t, ExpectedInstanceId, Info(None, <<>>, FALSE, ""), NoBody) :
            t \in {"Connected", "LoggedIn", "Disconnected", "LoggedOut", "ReadReceipt"}}

MalformedEvents ==
    {[TextEvent("M1", Direct, FALSE) EXCEPT !.userID = "inst-2"],
     [WzEvent("QR", "inst-2", Info(None, <<>>, FALSE, ""), NoBody) EXCEPT !.qrCodeBase64 = "<qr-base64>"],
     [TextEvent("M1", Direct, FALSE) EXCEPT !.hasType = FALSE],
     [TextEvent("M1", Direct, FALSE) EXCEPT !.hasUserID = FALSE],
     [TextEvent("M1", Direct, FALSE) EXCEPT !.hasType = FALSE, !.hasUserID = FALSE],
     [TextEvent("M1", Direct, FALSE) EXCEPT !.isDict = FALSE, !.hasType = FALSE, !.hasUserID = FALSE],
     [TextEvent("M1", Direct, FALSE) EXCEPT !.eventIsDict = FALSE]}

WuzapiPayloads == MessageEvents \cup SessionEvents \cup MalformedEvents

Attachment(file_type, data_url) == [file_type |-> file_type, data_url |-> data_url, file_name |-> <<"f.bin">>]

CwEvent(id, event, message_type, private, sender_type, content, attachments, source_id) ==
    [isDict |-> TRUE, id |-> id, event |-> event, message_type |-> message_type, private |-> private,
     sender_type |-> sender_type, content |-> content, attachments |-> attachments, source_id |-> source_id]

SourceId == <<"+", "573001234567">>
Url == <<"http://file">>

Eligible(id, content, attachments) ==
    CwEvent(id, "message_created", "outgoing", FALSE, "user", content, attachments, SourceId)

\* the body {}: every .get() of the handler and the use case answers its default
EmptyObject == CwEvent(0, "unknown", "", FALSE, "", <<>>, <<>>, <<>>)

ChatwootPayloads ==
    {Eligible(id, Hola, <<>>) : id \in 0..MaxCwMsgId}
    \cup {[Eligible(1, Hola, <<>>) EXCEPT !.sender_type = t] : t \in {"agent_bot", "contact", ""}}
    \cup {[Eligible(1, Hola, <<>>) EXCEPT !.event = "message_updated"],
          [Eligible(1, Hola, <<>>) EXCEPT !.message_type = "incoming"],
          [Eligible(1, Hola, <<>>) EXCEPT !.private = TRUE],
          [Eligible(1, Hola, <<>>) EXCEPT !.source_id = <<>>],
          [Eligible(1, Hola, <<>>) EXCEPT !.isDict = FALSE],
          EmptyObject,
          Eligible(2, <<>>, <<>>)}
    \cup {Eligible(2, c, <<Attachment(t, Url)>>) : c \in {<<>>, Hola}, t \in {"image", "audio", "file", "contact"}}
    \cup {Eligible(2, Hola, <<Attachment("image", <<>>)>>)}
    \cup {Eligible(2, Hola, <<Attachment("image", Url), Attachment("file", Url)>>)}

Wav == <<"audio/", "wav">>
Ogg == <<"audio/", "ogg">>

AllOk ==
    [wzOk |-> TRUE, wzId |-> "M1", dlOk |-> TRUE, ctype |-> Wav, convOk |-> TRUE,
     contactOk |-> TRUE, conversationOk |-> TRUE, msgOk |-> TRUE, avatar |-> TRUE, mediaOk |-> TRUE]

SendOracles ==
    {AllOk, [AllOk EXCEPT !.wzOk = FALSE], [AllOk EXCEPT !.wzId = None], [AllOk EXCEPT !.dlOk = FALSE],
     [AllOk EXCEPT !.ctype = Ogg], [AllOk EXCEPT !.convOk = FALSE]}

SyncOracles ==
    {AllOk, [AllOk EXCEPT !.contactOk = FALSE], [AllOk EXCEPT !.conversationOk = FALSE],
     [AllOk EXCEPT !.msgOk = FALSE], [AllOk EXCEPT !.avatar = FALSE], [AllOk EXCEPT !.mediaOk = FALSE]}

\* no task is suspended
NoTasks == [pc |-> <<>>]

\* nothing in flight
NoRelay == [wz |-> {}, cw |-> {}, pending |-> {}, mirrored |-> {}, sent |-> {}, wzNext |-> 1]

-----------------------------------------------------------------------------
(* Spec: the components assembled through their constructors *)

\* no request is being answered; found is the cache as the request found it
NoRequest ==
    [op |-> "none", payload |-> [isDict |-> FALSE],
     resp |-> [code |-> 0, status |-> "", reason |-> "", data |-> NoData, handler |-> ""], calls |-> <<>>,
     found |-> [kind |-> "none", connected |-> FALSE, store |-> EmptyStore]]

NoRegistry ==
    [phase |-> "components", chatwoot |-> FALSE, wuzapi |-> FALSE, cache |-> FALSE, media |-> FALSE,
     audio |-> FALSE, notifier |-> FALSE, session |-> FALSE]

Init ==
    /\ now = 0
    /\ cache \in {[kind |-> "memory", connected |-> TRUE, store |-> EmptyStore],
                  [kind |-> "redis", connected |-> TRUE, store |-> EmptyStore],
                  [kind |-> "redis", connected |-> FALSE, store |-> EmptyStore]}
    /\ wuzapi \in {[cache_repo |-> b] : b \in BOOLEAN}
    /\ converter \in {[present |-> FALSE, ffmpeg |-> FALSE], [present |-> TRUE, ffmpeg |-> FALSE],
                      [present |-> TRUE, ffmpeg |-> TRUE]}
    /\ handlerCfg \in {[expected_instance_id |-> ExpectedInstanceId, qr_use_case |-> b, session_notifier |-> b] :
                         b \in BOOLEAN}
    /\ cw = [nextMsgId |-> 1]
    /\ notifier = [contact_id |-> NoId, conversation_id |-> NoId]
    /\ last = NoRequest
    /\ reg = NoRegistry
    /\ env = [redisUp |-> cache.connected, ffmpeg |-> converter.ffmpeg]
    /\ health = ""
    /\ relay = NoRelay
    /\ tasks = NoTasks

Commit(op, payload, r) ==
    /\ cache' = r.w.cache
    /\ cw' = r.w.cw
    /\ notifier' = r.w.notifier
    /\ last' = [op |-> op, payload |-> payload, resp |-> r.value, calls |-> r.w.calls, found |-> cache]
    /\ UNCHANGED <<now, wuzapi, converter, handlerCfg, reg, env, health, relay, tasks>>

\* POST of a WuzAPI event to WuzAPIWebhookHandler.process_event
WuzapiWebhook ==
    /\ last.op = "none"
    /\ \E w \in {World}, p \in WuzapiPayloads, o \in SyncOracles :
          \E r \in {Wuzapi_process_event(w, p, o)} :
             r.w.cw.nextMsgId <= MaxCwMsgId + 1 /\ Commit("wuzapi", p, r)

\* POST of a Chatwoot event to ChatwootWebhookHandler.process_event
ChatwootWebhook ==
    /\ last.op = "none"
    /\ \E w \in {World}, p \in ChatwootPayloads, o \in SendOracles :
          \E r \in {Chatwoot_process_event(w, p, o)} : Commit("chatwoot", p, r)

\* the response leaves the service
Respond ==
    /\ last.op \in {"wuzapi", "chatwoot"}
    /\ last' = NoRequest
    /\ UNCHANGED <<now, cache, wuzapi, converter, handlerCfg, cw, notifier, reg, env, health, relay, tasks>>

\* time passes between requests; Redis expires what is due
Tick ==
    /\ last.op = "none"
    /\ now + TickStep <= MaxTime
    /\ now' = now + TickStep
    /\ cache' = Expire(cache, now')
    /\ UNCHANGED <<wuzapi, converter, handlerCfg, cw, notifier, last, reg, env, health, relay, tasks>>

Next == WuzapiWebhook \/ ChatwootWebhook \/ Respond \/ Tick

Spec == Init /\ [][Next]_vars

-----------------------------------------------------------------------------
(* SpecService: the service as the dependency registry assembles it.  A     *)
(* registry function works on d = [reg, cache, converter, raised]: the      *)
(* memoized singletons, the adapters they hold, and whether it raised       *)

\* the fields class Settings declares
SettingsFields ==
    {"PORT", "HOST", "LOG_LEVEL", "BACKEND_URL", "CHATWOOT_URL", "CHATWOOT_API_KEY", "CHATWOOT_ACCOUNT_ID",
     "CHATWOOT_INBOX_ID", "WUZAPI_URL", "WUZAPI_USER_TOKEN", "WUZAPI_INSTANCE_TOKEN", "WUZAPI_INSTANCE_ID",
     "REDIS_URL", "USE_CELERY"}

\* reading settings.<name>: d unchanged, or AttributeError
settings_get(d, name) == IF name \in SettingsFields THEN d ELSE [d EXCEPT !.raised = TRUE]

\* the keyword parameters of SendMessageToWhatsAppUseCase.__init__
SendUseCaseParams == {"wuzapi_repo", "cache_repo", "audio_converter"}

\* the registry as a request finds it
Registry == [reg |-> reg, cache |-> cache, converter |-> converter, raised |-> FALSE]

\* RedisCache.connect: every exception is caught, the adapter is left without a client
RedisCache_connect(c) == [c EXCEPT !.connected = env.redisUp]

\* whether RedisCache(url) followed by connect() raises into get_cache_client
connect_raises == FALSE

get_chatwoot_client(d) == IF d.raised THEN d ELSE [d EXCEPT !.reg.chatwoot = TRUE]

get_wuzapi_client(d) == IF d.raised THEN d ELSE [d EXCEPT !.reg.wuzapi = TRUE]

get_cache_client(d) ==
    IF d.raised \/ d.reg.cache THEN d
    ELSE IF connect_raises
    THEN [d EXCEPT !.reg.cache = TRUE, !.cache = [kind |-> "memory", connected |-> TRUE, store |-> EmptyStore]]
    ELSE [d EXCEPT !.reg.cache = TRUE,
                   !.cache = RedisCache_connect([kind |-> "redis", connected |-> FALSE, store |-> EmptyStore])]

get_media_downloader(d) == IF d.raised THEN d ELSE [d EXCEPT !.reg.media = TRUE]

get_audio_converter(d) ==
    IF d.raised \/ d.reg.audio THEN d
    ELSE [d EXCEPT !.reg.audio = TRUE, !.converter = [present |-> TRUE, ffmpeg |-> env.ffmpeg]]

get_session_notifier(d) ==
    IF d.raised \/ d.reg.notifier THEN d
    ELSE Bind(settings_get(settings_get(get_chatwoot_client(d), "WUZAPI_SESSION_CONTACT_NAME"),
                           "WUZAPI_SESSION_SOURCE_ID"), LAMBDA d1 :
         IF d1.raised THEN d1 ELSE [d1 EXCEPT !.reg.notifier = TRUE])

get_qr_use_case(d) == get_session_notifier(d)

get_session_client(d) == IF d.raised THEN d ELSE [d EXCEPT !.reg.session = TRUE]

get_command_use_case(d) == Bind(get_session_client(d), LAMBDA d1 : get_session_notifier(d1))

get_sync_to_chatwoot_use_case(d) ==
    Bind(get_chatwoot_client(d), LAMBDA d1 :
    Bind(get_cache_client(d1), LAMBDA d2 :
    Bind(get_media_downloader(d2), LAMBDA d3 : get_wuzapi_client(d3))))

get_send_to_whatsapp_use_case(d) ==
    Bind(get_wuzapi_client(d), LAMBDA d1 :
    Bind(get_cache_client(d1), LAMBDA d2 :
    Bind(get_audio_converter(d2), LAMBDA d3 :
    Bind(get_command_use_case(d3), LAMBDA d4 :
    Bind(settings_get(d4, "WUZAPI_SESSION_SOURCE_ID"), LAMBDA d5 :
    IF d5.raised THEN d5
    \* TypeError: unexpected keyword arguments
    ELSE IF ~({"command_use_case", "session_source_id"} \subseteq SendUseCaseParams)
    THEN [d5 EXCEPT !.raised = TRUE]
    ELSE d5)))))

get_wuzapi_handler(d) ==
    Bind(get_sync_to_chatwoot_use_case(d), LAMBDA d1 :
    Bind(get_qr_use_case(d1), LAMBDA d2 : get_session_notifier(d2)))

get_chatwoot_handler(d) == get_send_to_whatsapp_use_case(d)

cleanup_dependencies(r) ==
    [r EXCEPT !.chatwoot = FALSE, !.wuzapi = FALSE, !.cache = FALSE, !.media = FALSE]

\* "redis" if "redis" in str(type(cache_client)).lower() else "memory"
cache_type(c) == IF c.kind = "redis" THEN "redis" ELSE "memory"

\* what the framework answers when resolving a route's dependencies raises
framework_error == [code |-> 500, status |-> "", reason |-> "", data |-> NoData, handler |-> ""]

NoCache == [kind |-> "none", connected |-> FALSE, store |-> EmptyStore]

InitService ==
    /\ now = 0
    /\ cache = NoCache
    /\ wuzapi = [cache_repo |-> FALSE]
    /\ converter = [present |-> FALSE, ffmpeg |-> FALSE]
    /\ handlerCfg = [expected_instance_id |-> ExpectedInstanceId, qr_use_case |-> TRUE, session_notifier |-> TRUE]
    /\ cw = [nextMsgId |-> 1]
    /\ notifier = [contact_id |-> NoId, conversation_id |-> NoId]
    /\ last = NoRequest
    /\ reg = [NoRegistry EXCEPT !.phase = "down"]
    /\ env \in [redisUp : BOOLEAN, ffmpeg : BOOLEAN]
    /\ health = ""
    /\ relay = NoRelay
    /\ tasks = NoTasks

\* lifespan, startup half
Startup ==
    /\ reg.phase = "down"
    /\ \E d \in {get_cache_client(Registry)} :
          /\ reg' = [d.reg EXCEPT !.phase = "up"]
          /\ cache' = d.cache
    /\ UNCHANGED <<now, wuzapi, converter, handlerCfg, cw, notifier, last, env, health, relay, tasks>>

\* GET /health
HealthCheck ==
    /\ reg.phase = "up"
    /\ last.op = "none"
    /\ \E d \in {get_cache_client(Registry)} :
          /\ reg' = d.reg
          /\ cache' = d.cache
          /\ health' = cache_type(d.cache)
    /\ UNCHANGED <<now, wuzapi, converter, handlerCfg, cw, notifier, last, env, relay, tasks>>

\* a POST route: Depends(get_..._handler), then handler.process_event
Route(op, payload, d, r) ==
    /\ reg' = d.reg
    /\ converter' = d.converter
    /\ IF d.raised
       THEN /\ last' = [op |-> op, payload |-> payload, resp |-> framework_error, calls |-> <<>>,
                          found |-> d.cache]
            /\ cache' = d.cache
            /\ UNCHANGED <<cw, notifier>>
       ELSE /\ last' = [op |-> op, payload |-> payload, resp |-> r.value, calls |-> r.w.calls,
                          found |-> d.cache]
            /\ cache' = r.w.cache
            /\ cw' = r.w.cw
            /\ notifier' = r.w.notifier
    /\ UNCHANGED <<now, wuzapi, handlerCfg, env, health, relay, tasks>>

\* POST /webhook/wuzapi
PostWuzapi ==
    /\ reg.phase = "up"
    /\ last.op = "none"
    /\ \E p \in WuzapiPayloads, o \in SyncOracles :
          \E d \in {get_wuzapi_handler(Registry)} :
             \E w \in {[World EXCEPT !.cache = d.cache]} :
                Route("wuzapi", p, d, Wuzapi_process_event(w, p, o))

\* POST /webhook/chatwoot
PostChatwoot ==
    /\ reg.phase = "up"
    /\ last.op = "none"
    /\ \E p \in ChatwootPayloads, o \in SendOracles :
          \E d \in {get_chatwoot_handler(Registry)} :
             \E w \in {[World EXCEPT !.cache = d.cache]} :
                Route("chatwoot", p, d, Chatwoot_process_event(w, p, o))

\* lifespan, shutdown half
Shutdown ==
    /\ reg.phase = "up"
    /\ last.op = "none"
    /\ reg' = [cleanup_dependencies(reg) EXCEPT !.phase = "stopped"]
    /\ cache' = NoCache
    /\ UNCHANGED <<now, wuzapi, converter, handlerCfg, cw, notifier, last, env, health, relay, tasks>>

\* a new process: module globals start as None; Redis and ffmpeg may have come or gone
Restart ==
    /\ reg.phase = "stopped"
    /\ reg' = [NoRegistry EXCEPT !.phase = "down"]
    /\ env' \in [redisUp : BOOLEAN, ffmpeg : BOOLEAN]
    /\ converter' = [present |-> FALSE, ffmpeg |-> FALSE]
    /\ health' = ""
    /\ UNCHANGED <<now, cache, wuzapi, handlerCfg, cw, notifier, last, relay, tasks>>

NextService == Startup \/ HealthCheck \/ PostWuzapi \/ PostChatwoot \/ Respond \/ Shutdown \/ Restart

SpecService == InitService /\ [][NextService]_vars

-----------------------------------------------------------------------------
(* SpecDomain: the factories of the domain entities, applied to the inputs   *)
(* the initial state draws.  last holds the input and then the entity.       *)

\* dict.get(key, default) on an optional field: <<>> is the absent key
Get(field, default) == IF field = <<>> THEN default ELSE field[1]

\* bool(session_data.get('qrcode'))
NonEmpty(text) == text # None /\ text # ""

\* mutant: a connected session is reported as connecting before the QR code is looked at
from_status_response_connected_first(data) ==
    LET connected == Get(data.connected, FALSE)
        logged_in == Get(data.loggedIn, FALSE)
        has_qr    == NonEmpty(Get(data.qrcode, None))
    IN [instance_id |-> Get(data.id, ""),
        status |-> IF connected /\ logged_in THEN "connected"
                   ELSE IF connected THEN "connecting"
                   ELSE IF has_qr THEN "qr_pending"
                   ELSE "disconnected",
        jid |-> Get(data.jid, None),
        qr_code |-> Get(data.qrcode, None)]
\* WuzAPISession.from_status_response(data), data being the response's 'data' object
from_status_response(data) ==
    LET connected == Get(data.connected, FALSE)
        logged_in == Get(data.loggedIn, FALSE)
        has_qr    == NonEmpty(Get(data.qrcode, None))
    IN [instance_id |-> Get(data.id, ""),
        status |-> IF connected /\ logged_in THEN "connected"
                   ELSE IF has_qr THEN "qr_pending"
                   ELSE IF connected THEN "connecting"
                   ELSE "disconnected",
        jid |-> Get(data.jid, None),
        qr_code |-> Get(data.qrcode, None)]

QrImage == "data:image/png;base64,QR"

\* the bodies GET /session/status can answer with
StatusResponses ==
    [connected : {<<>>, <<TRUE>>, <<FALSE>>}, loggedIn : {<<>>, <<TRUE>>, <<FALSE>>},
     qrcode : {<<>>, <<"">>, <<QrImage>>}, id : {<<>>, <<ExpectedInstanceId>>},
     jid : {<<>>, <<"573001234567:1@s.whatsapp.net">>}]

\* Message events as WuzAPI types them: Info.Type, Info.MediaType and the keys of Message
FactoryEvents ==
    {[TextEvent("M1", Direct, fromMe) EXCEPT !.Info.Type = t, !.Info.MediaType = mt, !.Message = Body(keys, <<>>, <<>>, TRUE)] :
        fromMe \in BOOLEAN,
        t \in {"media", "text", "audio", "poll"},
        mt \in {"", "ptt", "image", "audioMessage", "documentMessage", "url", "reaction", "gif"},
        keys \in {{}, {"audioMessage"}, {"imageMessage"}, {"videoMessage"}}}

\* JIDs as Info.Chat carries them: direct chats (plain, with a device suffix, with
\* a leading +), a group, a status, and JIDs the factory refuses
Jids ==
    {Direct, Short, Group, Lid, StatusJid,
     <<"573001234567", ":", "12345", "@s.whatsapp.net">>,
     <<"+", "573001234567", "@s.whatsapp.net">>,
     <<"573001234567", "12345", "@s.whatsapp.net">>,
     <<"573001234567", "@newsletter">>,
     <<"abc", "@s.whatsapp.net">>}

\* the source ids of the conversations Sync opens (the formatted phone of an accepted
\* JID), and source ids that hold no phone
SourceIds ==
    {[jid |-> j, source_id |-> PhoneNumber_formatted(j)] : j \in {x \in Jids : from_whatsapp_jid(x) # <<>>}}
    \cup {[jid |-> <<>>, source_id |-> x] : x \in {<<>>, <<"+">>, <<"group_">>, <<"+", "group_">>}}

InitDomain ==
    /\ now = 0
    /\ cache = NoCache
    /\ wuzapi = [cache_repo |-> FALSE]
    /\ converter = [present |-> FALSE, ffmpeg |-> FALSE]
    /\ handlerCfg = [expected_instance_id |-> ExpectedInstanceId, qr_use_case |-> FALSE, session_notifier |-> FALSE]
    /\ cw = [nextMsgId |-> 1]
    /\ notifier = [contact_id |-> NoId, conversation_id |-> NoId]
    /\ last \in {[op |-> "status_response", payload |-> d, resp |-> NoValue, calls |-> <<>>, found |-> NoRequest.found] :
                    d \in StatusResponses}
               \cup {[op |-> "wuzapi_event", payload |-> p, resp |-> NoValue, calls |-> <<>>, found |-> NoRequest.found] :
                       p \in FactoryEvents}
               \cup {[op |-> "source_id", payload |-> p, resp |-> NoValue, calls |-> <<>>, found |-> NoRequest.found] :
                       p \in SourceIds}
    /\ reg = NoRegistry
    /\ env = [redisUp |-> FALSE, ffmpeg |-> FALSE]
    /\ health = ""
    /\ relay = NoRelay
    /\ tasks = NoTasks

\* WuzAPISessionClient.get_status builds the session from the body it received
FromStatusResponse ==
    /\ last.op = "status_response"
    /\ last' = [last EXCEPT !.op = "session", !.resp = from_status_response(last.payload)]
    /\ UNCHANGED <<now, cache, wuzapi, converter, handlerCfg, cw, notifier, reg, env, health, relay, tasks>>

\* WuzAPIWebhookHandler._parse_message hands the event to the factory
FromWuzapiEvent ==
    /\ last.op = "wuzapi_event"
    /\ last' = [last EXCEPT !.op = "message", !.resp = from_wuzapi_event(last.payload)]
    /\ UNCHANGED <<now, cache, wuzapi, converter, handlerCfg, cw, notifier, reg, env, health, relay, tasks>>

\* SendMessageToWhatsAppUseCase.execute on an eligible text of a conversation with that source id
DeriveDestination ==
    /\ last.op = "source_id"
    /\ \E r \in {Send_execute(World, [Eligible(0, Hola, <<>>) EXCEPT !.source_id = last.payload.source_id], AllOk)} :
          /\ last' = [last EXCEPT !.op = "destination", !.resp = r.value, !.calls = r.w.calls]
          /\ cache' = r.w.cache
    /\ UNCHANGED <<now, wuzapi, converter, handlerCfg, cw, notifier, reg, env, health, relay, tasks>>

NextDomain == FromStatusResponse \/ FromWuzapiEvent \/ DeriveDestination

SpecDomain == InitDomain /\ [][NextDomain]_vars

-----------------------------------------------------------------------------
(* SpecRelay: the bridge between WuzAPI and Chatwoot, with the webhooks the  *)
(* two systems send back.  WuzAPI echoes every send as an IsFromMe Message   *)
(* event; Chatwoot emits message_created for every message the bridge        *)
(* creates.  Each webhook is its own task of the event loop: Sync yields at  *)
(* the awaited send_message and again at the awaited cache write, and the    *)
(* webhook of the message it has just created may run in between.            *)

\* the ids WuzAPI gives to what it sends
WzIds == <<"M1", "M2", "M3", "M4", "M5", "M6">>

\* a message typed on the phone or received from the customer
PhoneEvent(fromMe) == TextEvent("P1", Direct, fromMe)

\* message_created as Chatwoot emits it for a message created through the API
CreatedEvent(c) ==
    [Eligible(c.reply, c.body, <<>>) EXCEPT
        !.message_type = c.name,
        !.sender_type = IF c.name = "outgoing" THEN "user" ELSE "contact"]

\* the Chatwoot messages a request created, and the WuzAPI messages it sent
Created(calls) ==
    {calls[i] : i \in {j \in 1..Len(calls) :
        calls[j].op \in {"send_message", "send_message_with_attachments"} /\ calls[j].reply # NoId}}
SentIds(calls) ==
    {calls[i].reply : i \in {j \in 1..Len(calls) : calls[j].op = "send_text_message" /\ calls[j].reply # Refused}}

\* ids are only compared with each other: past MaxRelay the counters start over,
\* which can make a loop guard match a stale marker but never miss a live one
Wrap(n) == IF n > MaxRelay THEN 1 ELSE n

\* the cache before the entries of keys were written
Without(c, keys) == [c EXCEPT !.store = [k \in (DOMAIN c.store) \ keys |-> c.store[k]]]

InitRelay ==
    /\ now = 0
    /\ cache \in {[kind |-> "memory", connected |-> TRUE, store |-> EmptyStore],
                  [kind |-> "redis", connected |-> TRUE, store |-> EmptyStore],
                  [kind |-> "redis", connected |-> FALSE, store |-> EmptyStore]}
    /\ wuzapi = [cache_repo |-> FALSE]
    /\ converter = [present |-> TRUE, ffmpeg |-> TRUE]
    /\ handlerCfg = [expected_instance_id |-> ExpectedInstanceId, qr_use_case |-> TRUE, session_notifier |-> TRUE]
    /\ notifier = [contact_id |-> NoId, conversation_id |-> NoId]
    /\ last = NoRequest
    /\ reg = NoRegistry
    /\ env = [redisUp |-> cache.connected, ffmpeg |-> TRUE]
    /\ health = ""
    /\ tasks = NoTasks
    /\ \/ /\ cw = [nextMsgId |-> 2]
          /\ relay = [NoRelay EXCEPT !.cw = {Eligible(1, Hola, <<>>)}]
       \/ /\ cw = [nextMsgId |-> 1]
          /\ \E fromMe \in BOOLEAN : relay = [NoRelay EXCEPT !.wz = {PhoneEvent(fromMe)}]

\* the WuzAPI webhook task, up to the return of the awaited send_message:
\* Chatwoot has created the message and emits its webhook
SyncBegin ==
    /\ relay.pending = {}
    /\ \E p \in relay.wz, msgOk \in BOOLEAN :
       \E r \in {Wuzapi_process_event(World, p, [AllOk EXCEPT !.msgOk = msgOk])} :
       \E markers \in {{c.reply : c \in {d \in Created(r.w.calls) : Live(r.w.cache, ConvKey(SyncedKey(d.reply)))}}} :
          /\ cache' = Without(r.w.cache, {ConvKey(SyncedKey(m)) : m \in markers})
          /\ cw' = [r.w.cw EXCEPT !.nextMsgId = Wrap(@)]
          /\ notifier' = r.w.notifier
          /\ last' = [op |-> "wuzapi", payload |-> p, resp |-> r.value, calls |-> r.w.calls, found |-> cache]
          /\ relay' = [relay EXCEPT
                !.wz = @ \ {p},
                !.cw = @ \cup {CreatedEvent(c) : c \in Created(r.w.calls)},
                !.pending = markers,
                !.mirrored = @ \cup (IF p.Info.IsFromMe THEN {c.reply : c \in Created(r.w.calls)} ELSE {})]
    /\ UNCHANGED <<now, wuzapi, converter, handlerCfg, reg, env, health, tasks>>

\* the WuzAPI webhook task resumes: the marker is written and the task answers
SyncEnd ==
    /\ relay.pending # {}
    /\ \E m \in relay.pending :
          /\ cache' = set_conversation_id(cache, SyncedKey(m), StrOne, AntiLoopTextTTL)
          /\ relay' = [relay EXCEPT !.pending = @ \ {m}]
    /\ UNCHANGED <<now, wuzapi, converter, handlerCfg, cw, notifier, last, reg, env, health, tasks>>

\* the Chatwoot webhook task; WuzAPI echoes what it was asked to send
ChatwootTask ==
    /\ \E p \in relay.cw, wzOk \in BOOLEAN :
       \E r \in {Chatwoot_process_event(World, p, [AllOk EXCEPT !.wzOk = wzOk, !.wzId = WzIds[relay.wzNext]])} :
          /\ cache' = r.w.cache
          /\ cw' = r.w.cw
          /\ notifier' = r.w.notifier
          /\ last' = [op |-> "chatwoot", payload |-> p, resp |-> r.value, calls |-> r.w.calls, found |-> cache]
          /\ relay' = [relay EXCEPT
                !.cw = @ \ {p},
                !.wz = @ \cup {TextEvent(id, Direct, TRUE) : id \in SentIds(r.w.calls)},
                !.sent = @ \cup SentIds(r.w.calls),
                !.wzNext = Wrap(@ + Cardinality(SentIds(r.w.calls)))]
    /\ UNCHANGED <<now, wuzapi, converter, handlerCfg, reg, env, health, tasks>>

NextRelay == SyncBegin \/ SyncEnd \/ ChatwootTask

SpecRelay == InitRelay /\ [][NextRelay]_vars

\* every task the event loop holds is eventually run
SpecRelayFair == SpecRelay /\ WF_vars(SyncBegin) /\ WF_vars(SyncEnd) /\ WF_vars(ChatwootTask)

-----------------------------------------------------------------------------
(* SpecCacheInit: get_cache_client called by several tasks (the startup     *)
(* hook, /health, the webhook routes) while _cache_client is still None.    *)
(* The coroutine yields once, at `await _cache_client.connect()`.           *)

Callers == 1..MaxCallers

\* tasks.client is _cache_client (0 is None); instances are numbered as they are built
InitCacheInit ==
    /\ now = 0
    /\ cache = NoCache
    /\ wuzapi = [cache_repo |-> FALSE]
    /\ converter = [present |-> FALSE, ffmpeg |-> FALSE]
    /\ handlerCfg = [expected_instance_id |-> ExpectedInstanceId, qr_use_case |-> TRUE, session_notifier |-> TRUE]
    /\ cw = [nextMsgId |-> 1]
    /\ notifier = [contact_id |-> NoId, conversation_id |-> NoId]
    /\ last = NoRequest
    /\ reg = [NoRegistry EXCEPT !.phase = "down"]
    /\ env \in [redisUp : BOOLEAN, ffmpeg : {FALSE}]
    /\ health = ""
    /\ relay = NoRelay
    /\ tasks = [pc |-> [t \in Callers |-> "idle"], got |-> [t \in Callers |-> 0],
                ready |-> [t \in Callers |-> FALSE], client |-> 0, made |-> 0, connected |-> {}]

\* get_cache_client up to its await: the memo is tested and, when None, assigned
\* the new RedisCache before connect() is awaited
GetCacheEnter(t) ==
    /\ tasks.pc[t] = "idle"
    /\ IF reg.cache
       THEN /\ tasks' = [tasks EXCEPT !.pc[t] = "returned", !.got[t] = tasks.client,
                                      !.ready[t] = tasks.client \in tasks.connected]
            /\ UNCHANGED <<reg, cache>>
       ELSE /\ tasks' = [tasks EXCEPT !.pc[t] = "connecting", !.client = tasks.made + 1, !.made = @ + 1]
            /\ reg' = [reg EXCEPT !.cache = TRUE]
            /\ cache' = [kind |-> "redis", connected |-> FALSE, store |-> EmptyStore]
    /\ UNCHANGED <<now, wuzapi, converter, handlerCfg, cw, notifier, last, env, health, relay>>

\* connect() has returned (or raised into the except branch); the memo is returned
GetCacheResume(t) ==
    /\ tasks.pc[t] = "connecting"
    /\ IF connect_raises
       THEN /\ cache' = [kind |-> "memory", connected |-> TRUE, store |-> EmptyStore]
            /\ tasks' = [tasks EXCEPT !.pc[t] = "returned", !.client = tasks.made + 1, !.made = @ + 1,
                                      !.connected = @ \cup {tasks.made + 1},
                                      !.got[t] = tasks.made + 1, !.ready[t] = TRUE]
       ELSE /\ cache' = RedisCache_connect(cache)
            /\ tasks' = [tasks EXCEPT !.pc[t] = "returned", !.connected = @ \cup {tasks.client},
                                      !.got[t] = tasks.client, !.ready[t] = TRUE]
    /\ UNCHANGED <<now, wuzapi, converter, handlerCfg, cw, notifier, last, reg, env, health, relay>>

\* the request of a task is answered and the task may call again
CallerDone(t) ==
    /\ tasks.pc[t] = "returned"
    /\ tasks' = [tasks EXCEPT !.pc[t] = "idle", !.got[t] = 0, !.ready[t] = FALSE]
    /\ UNCHANGED <<now, cache, wuzapi, converter, handlerCfg, cw, notifier, last, reg, env, health, relay>>

NextCacheInit == \E t \in Callers : GetCacheEnter(t) \/ GetCacheResume(t) \/ CallerDone(t)

SpecCacheInit == InitCacheInit /\ [][NextCacheInit]_vars

-----------------------------------------------------------------------------
(* SpecNotifier: QR / Connected / Disconnected notifications handled by      *)
(* several request tasks that share the one ChatwootSessionNotifier.  A      *)
(* notification yields at each awaited Chatwoot request.                     *)

InitNotifier ==
    /\ now = 0
    /\ cache = NoCache
    /\ wuzapi = [cache_repo |-> FALSE]
    /\ converter = [present |-> FALSE, ffmpeg |-> FALSE]
    /\ handlerCfg = [expected_instance_id |-> ExpectedInstanceId, qr_use_case |-> TRUE, session_notifier |-> TRUE]
    /\ cw = [nextMsgId |-> 1]
    /\ notifier = [contact_id |-> NoId, conversation_id |-> NoId]
    /\ last = NoRequest
    /\ reg = NoRegistry
    /\ env = [redisUp |-> FALSE, ffmpeg |-> FALSE]
    /\ health = ""
    /\ relay = NoRelay
    /\ tasks = [pc |-> [t \in Callers |-> "idle"], finds |-> 0, convs |-> 0]

\* where _ensure_contact_and_conversation goes once the contact id is there
AfterContact(conversation_id) == IF conversation_id = NoId THEN "creating" ELSE "sending"

\* _ensure_contact_and_conversation up to its first await
EnsureEnter(t) ==
    /\ tasks.pc[t] = "idle"
    /\ tasks' = [tasks EXCEPT !.pc[t] = IF notifier.contact_id = NoId THEN "finding"
                                        ELSE AfterContact(notifier.conversation_id)]
    /\ UNCHANGED <<now, cache, wuzapi, converter, handlerCfg, cw, notifier, last, reg, env, health, relay>>

\* self._contact_id = await self._find_or_create_bot_contact()
FindResume(t) ==
    /\ tasks.pc[t] = "finding"
    /\ \E ok \in BOOLEAN :
       \E c \in {find_or_create_bot_contact(World, [AllOk EXCEPT !.contactOk = ok])} :
          /\ notifier' = [notifier EXCEPT !.contact_id = c.value]
          /\ tasks' = [tasks EXCEPT !.finds = IF c.value # NoId THEN @ + 1 ELSE @,
                                    !.pc[t] = IF c.value = NoId THEN "done"
                                              ELSE AfterContact(notifier.conversation_id)]
    /\ UNCHANGED <<now, cache, wuzapi, converter, handlerCfg, cw, last, reg, env, health, relay>>

\* self._conversation_id = await self.chatwoot.create_or_get_conversation(...)
CreateResume(t) ==
    /\ tasks.pc[t] = "creating"
    /\ \E ok \in BOOLEAN :
       \E v \in {create_or_get_conversation(World, notifier.contact_id, BotSourceId,
                                            [AllOk EXCEPT !.conversationOk = ok])} :
          /\ notifier' = [notifier EXCEPT !.conversation_id = v.value]
          /\ tasks' = [tasks EXCEPT !.convs = IF v.value # NoId THEN @ + 1 ELSE @,
                                    !.pc[t] = IF v.value = NoId THEN "done" ELSE "sending"]
    /\ UNCHANGED <<now, cache, wuzapi, converter, handlerCfg, cw, last, reg, env, health, relay>>

\* the notice is sent to the bot conversation and the notification returns
SendResume(t) ==
    /\ tasks.pc[t] = "sending"
    /\ \E r \in {send_message(World, notifier.conversation_id, <<"<connected-notice>">>, "incoming", AllOk)} :
          /\ cw' = r.w.cw
          /\ tasks' = [tasks EXCEPT !.pc[t] = "done"]
    /\ UNCHANGED <<now, cache, wuzapi, converter, handlerCfg, notifier, last, reg, env, health, relay>>

NextNotifier == \E t \in Callers : EnsureEnter(t) \/ FindResume(t) \/ CreateResume(t) \/ SendResume(t)

SpecNotifier == InitNotifier /\ [][NextNotifier]_vars

-----------------------------------------------------------------------------
(* SpecConversation: the conversation of one phone number resolved by        *)
(* several sync tasks at once.  execute yields at the cache read, at the     *)
(* search of create_or_get_conversation, at its create request and at the    *)
(* cache write; tasks.server is the set of conversations Chatwoot holds for  *)
(* the contact in the inbox.                                                 *)

SyncPhone == PhoneNumber_formatted(Direct)

\* mutant: the conversations found are not looked at, one is always created
existing_conversation_none(found) == NoId
\* create_or_get_conversation, search half: the conversation to reuse, None when there is none
existing_conversation(found) == IF found = {} THEN NoId ELSE CHOOSE id \in found : \A x \in found : id <= x

InitConversation ==
    /\ now = 0
    /\ \E kind \in {"memory", "redis"}, store \in {EmptyStore, set_conversation_id(
                [kind |-> "memory", connected |-> TRUE, store |-> EmptyStore],
                SyncPhone, IntVal(ConversationIdOf(1)), ConversationTTL).store} :
          cache = [kind |-> kind, connected |-> TRUE, store |-> store]
    /\ wuzapi = [cache_repo |-> FALSE]
    /\ converter = [present |-> FALSE, ffmpeg |-> FALSE]
    /\ handlerCfg = [expected_instance_id |-> ExpectedInstanceId, qr_use_case |-> TRUE, session_notifier |-> TRUE]
    /\ cw = [nextMsgId |-> 1]
    /\ notifier = [contact_id |-> NoId, conversation_id |-> NoId]
    /\ last = NoRequest
    /\ reg = NoRegistry
    /\ env = [redisUp |-> TRUE, ffmpeg |-> FALSE]
    /\ health = ""
    /\ relay = NoRelay
    /\ \E server \in {{}, {ConversationIdOf(1)}} :
          tasks = [pc |-> [t \in Callers |-> "start"], id |-> [t \in Callers |-> NoId],
                   saw |-> [t \in Callers |-> {}], posted |-> [t \in Callers |-> FALSE],
                   server |-> server, first |-> server]

\* conversation_id = await self.cache.get_conversation_id(phone)
CacheLookup(t) ==
    /\ tasks.pc[t] = "start"
    /\ \E g \in {get_conversation_id(cache, SyncPhone)} :
          /\ cache' = g[2]
          /\ tasks' = IF Truthy(g[1])
                      THEN [tasks EXCEPT !.pc[t] = "resolved", !.id[t] = g[1][2]]
                      ELSE [tasks EXCEPT !.pc[t] = "searching"]
    /\ UNCHANGED <<now, wuzapi, converter, handlerCfg, cw, notifier, last, reg, env, health, relay>>

\* the search answers; a conversation found is returned, otherwise the create request is sent
Searched(t) ==
    /\ tasks.pc[t] = "searching"
    /\ \E id \in {existing_conversation(tasks.server)} :
          tasks' = IF id # NoId
                   THEN [tasks EXCEPT !.pc[t] = "caching", !.id[t] = id, !.saw[t] = tasks.server]
                   ELSE [tasks EXCEPT !.pc[t] = "creating", !.posted[t] = TRUE, !.saw[t] = tasks.server]
    /\ UNCHANGED <<now, cache, wuzapi, converter, handlerCfg, cw, notifier, last, reg, env, health, relay>>

\* the create request answers: Chatwoot has opened a new conversation, or refused
CreateAnswered(t) ==
    /\ tasks.pc[t] = "creating"
    /\ \E ok \in BOOLEAN :
          tasks' = IF ok
                   THEN [tasks EXCEPT !.pc[t] = "caching",
                                      !.id[t] = ConversationIdOf(1) + Cardinality(tasks.server),
                                      !.server = @ \cup {ConversationIdOf(1) + Cardinality(tasks.server)}]
                   ELSE [tasks EXCEPT !.pc[t] = "failed"]
    /\ UNCHANGED <<now, cache, wuzapi, converter, handlerCfg, cw, notifier, last, reg, env, health, relay>>

\* await self.cache.set_conversation_id(phone, conversation_id)
CacheWrite(t) ==
    /\ tasks.pc[t] = "caching"
    /\ cache' = set_conversation_id(cache, SyncPhone, IntVal(tasks.id[t]), ConversationTTL)
    /\ tasks' = [tasks EXCEPT !.pc[t] = "resolved"]
    /\ UNCHANGED <<now, wuzapi, converter, handlerCfg, cw, notifier, last, reg, env, health, relay>>

NextConversation == \E t \in Callers : CacheLookup(t) \/ Searched(t) \/ CreateAnswered(t) \/ CacheWrite(t)

SpecConversation == InitConversation /\ [][NextConversation]_vars

-----------------------------------------------------------------------------
(* SpecCommand: HandleSessionCommandUseCase on the texts an admin types, over  *)
(* WuzAPISessionClient and ChatwootSessionNotifier.respond.  o.qr is the QR    *)
(* GET /session/qr answers with, o.status the body of GET /session/status      *)
(* (<<>> when the request fails), o.opOk the answer to connect, disconnect     *)
(* and logout, o.msgOk whether Chatwoot accepts the message.                   *)

RECURSIVE LStrip(_)
\* str.lstrip()
LStrip(s) == IF s # <<>> /\ Head(s) = " " THEN LStrip(Tail(s)) ELSE s

RECURSIVE RStrip(_)
\* str.rstrip()
RStrip(s) == IF s # <<>> /\ s[Len(s)] = " " THEN RStrip(SubSeq(s, 1, Len(s) - 1)) ELSE s

\* the aliases of SessionCommand.parse
Aliases ==
    [a \in {"help", "ayuda", "?", "h", "status", "estado", "s", "qr", "codigo", "connect", "conectar", "c",
            "start", "iniciar", "disconnect", "desconectar", "d", "stop", "detener", "logout", "salir",
            "cerrar", "close"} |->
        CASE a \in {"help", "ayuda", "?", "h"} -> "help"
          [] a \in {"status", "estado", "s"} -> "status"
          [] a \in {"qr", "codigo"} -> "qr"
          [] a \in {"connect", "conectar", "c", "start", "iniciar"} -> "connect"
          [] a \in {"disconnect", "desconectar", "d", "stop", "detener"} -> "disconnect"
          [] OTHER -> "logout"]

\* SessionCommand.parse(text)[0]: strip, lower, drop one leading "/", first word, alias
SessionCommand_parse(text) ==
    IF text = <<>> THEN "unknown"
    ELSE LET t    == Lower(RStrip(LStrip(text)))
             t1   == IF t # <<>> /\ Head(t) = "/" THEN Tail(t) ELSE t
             word == UpTo(LStrip(t1), " ")
         IN IF Len(word) = 1 /\ word[1] \in DOMAIN Aliases THEN Aliases[word[1]] ELSE "unknown"

\* WuzAPISessionClient.get_qr: the QR string, None when the answer has none
get_qr(w, o) ==
    LET qr_code == IF o.qr \in {None, ""} THEN None ELSE o.qr
    IN Ret(Log(w, Call("get_qr", <<>>, <<>>, <<>>, <<>>, qr_code)), qr_code)

\* WuzAPISessionClient.get_status: <<session>>, <<>> (None) when the request fails
get_status(w, o) ==
    LET session == IF o.status = <<>> THEN <<>> ELSE <<from_status_response(o.status[1])>>
    IN Ret(Log(w, Call("get_status", <<>>, <<>>, <<>>, <<>>, session)), session)

\* WuzAPISessionClient.connect, disconnect, logout
session_post(w, op, o) == Ret(Log(w, Call(op, <<>>, <<>>, <<>>, <<>>, o.opOk)), o.opOk)

\* what a handler returns: a text, or the dict {"type": "qr", "session", "message"}
TextResponse(text) == [type |-> "text", message |-> text, qr_code |-> None]
QrResponse(qr_code) == [type |-> "qr", message |-> <<"<scan-qr>">>, qr_code |-> qr_code]

handle_help(w, o) == Ret(w, TextResponse(<<"<help>">>))

handle_status(w, o) ==
    Bind(get_status(w, o), LAMBDA r :
    IF r.value = <<>> THEN Ret(r.w, TextResponse(<<"<status-error>">>))
    ELSE Ret(r.w, TextResponse(<<"<status>", r.value[1].status>>
                               \o (IF NonEmpty(r.value[1].jid) THEN <<"<jid>">> ELSE <<>>)
                               \o (IF r.value[1].status = "qr_pending" THEN <<"<use-qr>">> ELSE <<>>))))

\* mutant: the status is asked first, the QR endpoint only when the status has no QR
handle_qr_status_first(w, o) ==
    Bind(get_status(w, o), LAMBDA r :
    IF r.value = <<>> THEN Ret(r.w, TextResponse(<<"<qr-error>">>))
    ELSE IF r.value[1].status = "connected" THEN Ret(r.w, TextResponse(<<"<already-connected>">>))
    ELSE IF NonEmpty(r.value[1].qr_code) THEN Ret(r.w, QrResponse(r.value[1].qr_code))
    ELSE Bind(get_qr(r.w, o), LAMBDA q :
         IF q.value # None THEN Ret(q.w, QrResponse(q.value))
         ELSE Ret(q.w, TextResponse(<<"<use-connect>">>))))

handle_qr(w, o) ==
    Bind(get_qr(w, o), LAMBDA q :
    IF q.value # None THEN Ret(q.w, QrResponse(q.value))
    ELSE Bind(get_status(q.w, o), LAMBDA r :
         IF r.value = <<>> THEN Ret(r.w, TextResponse(<<"<qr-error>">>))
         ELSE IF r.value[1].status = "connected" THEN Ret(r.w, TextResponse(<<"<already-connected>">>))
         ELSE IF NonEmpty(r.value[1].qr_code) THEN Ret(r.w, QrResponse(r.value[1].qr_code))
         ELSE Ret(r.w, TextResponse(<<"<use-connect>">>))))

handle_connect(w, o) ==
    Bind(session_post(w, "connect", o), LAMBDA r :
    Ret(r.w, TextResponse(IF r.value THEN <<"<connect-sent>">> ELSE <<"<connect-error>">>)))

handle_disconnect(w, o) ==
    Bind(session_post(w, "disconnect", o), LAMBDA r :
    Ret(r.w, TextResponse(IF r.value THEN <<"<disconnected>">> ELSE <<"<disconnect-error>">>)))

handle_logout(w, o) ==
    Bind(session_post(w, "logout", o), LAMBDA r :
    Ret(r.w, TextResponse(IF r.value THEN <<"<logged-out>">> ELSE <<"<logout-error>">>)))

handle_unknown(text) == TextResponse(<<"<unknown-command>">> \o text)

\* ChatwootSessionNotifier.respond
respond(w, conversation_id, response, o) ==
    IF response.type = "qr" /\ response.qr_code # None /\ qr_bytes(response.qr_code) # None
    THEN Bind(send_message_with_attachments(w, conversation_id, response.message, "incoming",
                                            qr_bytes(response.qr_code), "qr_code.png", "image/png", o),
              LAMBDA r : Ret(r.w, r.value # NoId))
    ELSE Bind(send_message(w, conversation_id, response.message, "incoming", o),
              LAMBDA r : Ret(r.w, r.value # NoId))

\* the response of the command's handler
command_response(w, command, text, o) ==
    CASE command = "help" -> handle_help(w, o)
      [] command = "status" -> handle_status(w, o)
      [] command = "qr" -> handle_qr(w, o)
      [] command = "connect" -> handle_connect(w, o)
      [] command = "disconnect" -> handle_disconnect(w, o)
      [] command = "logout" -> handle_logout(w, o)
      [] OTHER -> Ret(w, handle_unknown(text))

\* mutant: a text that is no command is not answered
HandleSessionCommand_execute_known_only(w, message_text, conversation_id, o) ==
    IF ~message_text.isStr THEN Ret(w, FALSE)
    ELSE IF SessionCommand_parse(message_text.s) = "unknown" THEN Ret(w, TRUE)
    ELSE Bind(command_response(w, SessionCommand_parse(message_text.s), message_text.s, o), LAMBDA h :
         respond(h.w, conversation_id, h.value, o))

\* HandleSessionCommandUseCase.execute; a message_text that is no string makes parse raise
HandleSessionCommand_execute(w, message_text, conversation_id, o) ==
    IF ~message_text.isStr THEN Ret(w, FALSE)
    ELSE Bind(command_response(w, SessionCommand_parse(message_text.s), message_text.s, o), LAMBDA h :
         respond(h.w, conversation_id, h.value, o))

\* the texts typed into the bot conversation; the last one is a JSON number
CommandTexts ==
    {[isStr |-> TRUE, s |-> t] :
        t \in {<<"/", "help">>, <<"?">>, <<"/", "Status">>, <<"estado">>, <<" ", "/", "QR", " ", "code", " ">>,
               <<"/", " ", "qr">>, <<"/", "connect">>, <<"start">>, <<"/", "disconnect">>, <<"/", "logout">>,
               <<"salir">>, <<"/", "/", "help">>, <<"hola">>, <<"/">>, <<>>}}
    \cup {[isStr |-> FALSE, s |-> <<>>]}

CommandConversations == {ConversationIdOf(BotContactId), ConversationIdOf(1)}

CommandOracles ==
    [qr : {None, "", "<qr-base64>", "<not-base64>"},
     status : {<<>>} \cup {<<[connected |-> c, loggedIn |-> c, qrcode |-> q, id |-> <<ExpectedInstanceId>>, jid |-> j]>> :
                             c \in {<<>>, <<TRUE>>}, q \in {<<>>, <<"">>, <<"<qr-base64>">>},
                             j \in {<<>>, <<"573001234567:1@s.whatsapp.net">>}},
     opOk : BOOLEAN, msgOk : BOOLEAN]

InitCommand ==
    /\ now = 0
    /\ cache = NoCache
    /\ wuzapi = [cache_repo |-> FALSE]
    /\ converter = [present |-> FALSE, ffmpeg |-> FALSE]
    /\ handlerCfg = [expected_instance_id |-> ExpectedInstanceId, qr_use_case |-> FALSE, session_notifier |-> FALSE]
    /\ cw = [nextMsgId |-> 1]
    /\ notifier = [contact_id |-> NoId, conversation_id |-> NoId]
    /\ last \in {[op |-> "command", payload |-> [message_text |-> t, conversation_id |-> c], resp |-> NoValue,
                  calls |-> <<>>, found |-> NoRequest.found] : t \in CommandTexts, c \in CommandConversations}
    /\ reg = NoRegistry
    /\ env = [redisUp |-> FALSE, ffmpeg |-> FALSE]
    /\ health = ""
    /\ relay = NoRelay
    /\ tasks = NoTasks

\* one invocation of execute
ExecuteCommand ==
    /\ last.op = "command"
    /\ \E o \in CommandOracles :
          \E r \in {HandleSessionCommand_execute(World, last.payload.message_text,
                                                 last.payload.conversation_id, o)} :
             /\ last' = [last EXCEPT !.op = "responded", !.resp = r.value, !.calls = r.w.calls]
             /\ cw' = r.w.cw
    /\ UNCHANGED <<now, cache, wuzapi, converter, handlerCfg, notifier, reg, env, health, relay, tasks>>

NextCommand == ExecuteCommand

SpecCommand == InitCommand /\ [][NextCommand]_vars

-----------------------------------------------------------------------------
(* SpecMemoryCache: InMemoryCache on its own, under writes, reads and deletes  *)
(* of a few phones while the clock advances second by second.  last.payload    *)
(* carries, next to the arguments of the last operation, what was last written *)
(* under each phone and when (history, not program state).                     *)

\* the clock stops here
MaxClock == 4

CachePhones == {<<"573001234567">>, <<"12345">>}
CacheValues == {IntVal(ConversationIdOf(1)), IntVal(ConversationIdOf(2))}
CacheTTLs == {1, 2, 3}

NeverWritten == [set |-> FALSE, value |-> NoValue, at |-> 0, ttl |-> 0]

InitMemoryCache ==
    /\ now = 0
    /\ cache = [kind |-> "memory", connected |-> TRUE, store |-> EmptyStore]
    /\ wuzapi = [cache_repo |-> FALSE]
    /\ converter = [present |-> FALSE, ffmpeg |-> FALSE]
    /\ handlerCfg = [expected_instance_id |-> ExpectedInstanceId, qr_use_case |-> FALSE, session_notifier |-> FALSE]
    /\ cw = [nextMsgId |-> 1]
    /\ notifier = [contact_id |-> NoId, conversation_id |-> NoId]
    /\ last = [op |-> "new", payload |-> [phone |-> <<>>, written |-> [p \in CachePhones |-> NeverWritten]],
               resp |-> NoValue, calls |-> <<>>, found |-> cache]
    /\ reg = NoRegistry
    /\ env = [redisUp |-> FALSE, ffmpeg |-> FALSE]
    /\ health = ""
    /\ relay = NoRelay
    /\ tasks = NoTasks

\* await cache.set_conversation_id(phone, conversation_id, ttl)
MemSet ==
    /\ \E phone \in CachePhones, value \in CacheValues, ttl \in CacheTTLs :
          /\ cache' = set_conversation_id(cache, phone, value, ttl)
          /\ last' = [last EXCEPT !.op = "set", !.resp = NoValue, !.found = cache, !.payload.phone = phone,
                                  !.payload.written[phone] = [set |-> TRUE, value |-> value, at |-> now, ttl |-> ttl]]
    /\ UNCHANGED <<now, wuzapi, converter, handlerCfg, cw, notifier, reg, env, health, relay, tasks>>

\* await cache.get_conversation_id(phone)
MemGet ==
    /\ \E phone \in CachePhones :
          \E r \in {get_conversation_id(cache, phone)} :
             /\ cache' = r[2]
             /\ last' = [last EXCEPT !.op = "get", !.resp = r[1], !.found = cache, !.payload.phone = phone]
    /\ UNCHANGED <<now, wuzapi, converter, handlerCfg, cw, notifier, reg, env, health, relay, tasks>>

\* await cache.delete_conversation_id(phone)
MemDelete ==
    /\ \E phone \in CachePhones :
          /\ cache' = delete_conversation_id(cache, phone)
          /\ last' = [last EXCEPT !.op = "delete", !.resp = NoValue, !.found = cache, !.payload.phone = phone,
                                  !.payload.written[phone] = NeverWritten]
    /\ UNCHANGED <<now, wuzapi, converter, handlerCfg, cw, notifier, reg, env, health, relay, tasks>>

\* a second passes; the in-memory map does nothing on its own
MemTick ==
    /\ now < MaxClock
    /\ now' = now + 1
    /\ last' = [last EXCEPT !.op = "tick", !.resp = NoValue, !.found = cache]
    /\ UNCHANGED <<cache, wuzapi, converter, handlerCfg, cw, notifier, reg, env, health, relay, tasks>>

NextMemoryCache == MemSet \/ MemGet \/ MemDelete \/ MemTick

SpecMemoryCache == InitMemoryCache /\ [][NextMemoryCache]_vars

-----------------------------------------------------------------------------
(* Properties.  A request's state is the one its handler leaves: last holds  *)
(* the payload, the response and the outbound calls, and no time has passed  *)
(* since the request arrived.                                                *)

\* the operations a request invoked, and the positions of the calls of one operation
Ops(calls) == {calls[i].op : i \in 1..Len(calls)}
CallsOf(calls, op) == {i \in 1..Len(calls) : calls[i].op = op}

\* the cache holds a live entry under the anti-loop key
MarkerLive(key) == Live(cache, ConvKey(key))

\* the MIME type of a data URI
MimeOf(uri) == SubSeq(uri, 2, Len(uri) - 2)

\* the WuzAPI event is a well-formed Message of the expected instance that parses
ParsedMessage(p) ==
    /\ Wuzapi_validate_payload(p) /\ p.userID = handlerCfg.expected_instance_id
    /\ p.type = "Message" /\ p.eventIsDict /\ from_wuzapi_event(p).parsed

(* C1: a Chatwoot webhook whose message id holds a live synced_to_chatwoot   *)
(* marker (written by Sync) is skipped by Send: the request reports success  *)
(* and invokes no WuzAPI send operation.                                     *)
C1_SyncedEchoSkipped ==
    (/\ last.op = "chatwoot" /\ last.payload.isDict
     /\ last.payload.id # 0 /\ MarkerLive(SyncedKey(last.payload.id)))
    => (last.resp.status = "success" /\ Ops(last.calls) \cap WuzapiSendOps = {})

C1_Witness ==
    /\ last.op = "chatwoot" /\ last.payload = Eligible(1, Hola, <<>>)
    /\ MarkerLive(SyncedKey(1))
    /\ last.resp.status = "success" /\ last.calls = <<>>

GuardMatches(p) == p.id # 0 /\ MarkerLive(SyncedKey(p.id))

\* the four conditions the eligibility filter is stated with
FourConditions(p) ==
    /\ p.event = "message_created" /\ p.message_type = "outgoing"
    /\ p.private = FALSE /\ p.sender_type \in {"user", "agent_bot"}

\* the first attachment of a payload, if any, can be delivered: it has a data_url
\* and, when it is an audio, its download succeeded
Deliverable(p, calls) ==
    \/ p.attachments = <<>>
    \/ /\ p.attachments[1].data_url # <<>>
       /\ p.attachments[1].file_type = "audio"
          => \E i \in CallsOf(calls, "download_file") : calls[i].reply = Accepted(TRUE)

(* C3 as amended: Send invokes a WuzAPI send operation only for a payload     *)
(* with event message_created, type outgoing, not private and sender type     *)
(* user or agent_bot; and such a payload with no live marker, a non-empty     *)
(* destination and text content is forwarded unless its first attachment      *)
(* has no data_url or is an audio whose download fails; with no attachment    *)
(* it goes out through send_text_message to that destination.                 *)
C3_EligibilityFilter ==
    (last.op = "chatwoot" /\ last.payload.isDict)
    => /\ (Ops(last.calls) \cap WuzapiSendOps # {} => FourConditions(last.payload))
       /\ (/\ FourConditions(last.payload) /\ ~GuardMatches(last.payload)
           /\ extract_phone(last.payload) # <<>> /\ last.payload.content # <<>>
           /\ Deliverable(last.payload, last.calls))
          => /\ Ops(last.calls) \cap WuzapiSendOps # {}
             /\ last.payload.attachments = <<>>
                => \E i \in CallsOf(last.calls, "send_text_message") :
                      /\ last.calls[i].to = extract_phone(last.payload)
                      /\ last.calls[i].body = last.payload.content

C3_Witness ==
    /\ last.op = "chatwoot" /\ last.payload = [Eligible(1, Hola, <<>>) EXCEPT !.sender_type = "agent_bot"]
    /\ ~GuardMatches(last.payload)
    /\ Ops(last.calls) = {"send_text_message"}

(* C3 as stated: ... and every payload satisfying the four conditions, with   *)
(* no live marker, a non-empty destination and text content, is forwarded.    *)
C3_AsStated ==
    (last.op = "chatwoot" /\ last.payload.isDict)
    => /\ (Ops(last.calls) \cap WuzapiSendOps # {} => FourConditions(last.payload))
       /\ (/\ FourConditions(last.payload) /\ ~GuardMatches(last.payload)
           /\ extract_phone(last.payload) # <<>> /\ last.payload.content # <<>>)
          => Ops(last.calls) \cap WuzapiSendOps # {}

(* C4: every POST to a webhook route is answered by the handler template:     *)
(* (code, status) is (200, success), (200, ignored), (400, error) or          *)
(* (500, exception), built by the WuzAPI or the Chatwoot handler.             *)
C4_TemplateResponse ==
    last.op \in {"wuzapi", "chatwoot"}
    => /\ <<last.resp.code, last.resp.status>> \in
            {<<200, "success">>, <<200, "ignored">>, <<400, "error">>, <<500, "exception">>}
       /\ last.resp.handler \in {"WuzAPI", "Chatwoot"}

(* C5: a WuzAPI payload without `type` or without `userID` is answered 400,  *)
(* status error, reason invalid_payload, and nothing is invoked for it.       *)
C5_MissingFieldsRejected ==
    (last.op = "wuzapi" /\ (~last.payload.hasType \/ ~last.payload.hasUserID))
    => /\ last.resp.code = 400 /\ last.resp.status = "error" /\ last.resp.reason = "invalid_payload"
       /\ last.calls = <<>>

C5_Witness ==
    /\ last.op = "wuzapi" /\ last.payload.isDict /\ ~last.payload.hasType /\ last.payload.hasUserID
    /\ last.resp.code = 400 /\ last.resp.reason = "invalid_payload"

(* C6: when Redis could not be reached as the cache adapter was built, the    *)
(* registry holds the in-memory adapter and /health reports `memory`.         *)
C6_FallbackToMemory ==
    (reg.phase = "up" /\ reg.cache /\ ~(cache.kind = "redis" /\ cache.connected))
    => (cache.kind = "memory" /\ health \in {"", "memory"})

\* the conversation a sync request addressed: created now, or read from the cache
ConversationObtained(calls, phone) ==
    IF CallsOf(calls, "create_or_get_conversation") # {}
    THEN calls[CHOOSE i \in CallsOf(calls, "create_or_get_conversation") : TRUE].reply
    ELSE get_conversation_id(cache, phone)[1][2]

(* C7: a Message event of the expected instance, not self-sent, from a valid  *)
(* direct chat, with conversation = "hola", all of whose Chatwoot requests    *)
(* are served, makes exactly one send_message call: type incoming, content    *)
(* "hola", to the conversation obtained (cache, or create-or-get for the      *)
(* contact of that phone); and the handler answers success.                   *)
C7_TextRelayed ==
    (/\ last.op = "wuzapi"
     /\ \E id \in {"M1", "M2"} : last.payload = TextEvent(id, Direct, FALSE)
     /\ \A i \in 1..Len(last.calls) : last.calls[i].op \in ChatwootOps => last.calls[i].reply # NoId)
    => /\ Cardinality(CallsOf(last.calls, "send_message")) = 1
       /\ CallsOf(last.calls, "send_message_with_attachments") = {}
       /\ \A i \in CallsOf(last.calls, "send_message") :
            /\ last.calls[i].name = "incoming"
            /\ last.calls[i].body = Hola
            /\ last.calls[i].to = ConversationObtained(last.calls, <<"+", "573001234567">>)
       /\ \A i \in CallsOf(last.calls, "create_or_get_contact") : last.calls[i].to = <<"573001234567">>
       /\ \A i \in CallsOf(last.calls, "create_or_get_conversation") :
            \E j \in CallsOf(last.calls, "create_or_get_contact") : last.calls[i].to = last.calls[j].reply
       /\ last.resp.code = 200 /\ last.resp.status = "success"

C7_Witness ==
    /\ last.op = "wuzapi" /\ last.payload = TextEvent("M1", Direct, FALSE)
    /\ CallsOf(last.calls, "create_or_get_conversation") = {}
    /\ \E i \in CallsOf(last.calls, "send_message") : last.calls[i].reply # NoId /\ last.calls[i].body = Hola
    /\ last.resp.status = "success"

(* C8: with the transcoding tool unavailable, a downloaded WAV attachment is  *)
(* sent with the document-send operation, never send_audio_message, with      *)
(* filename audio.wav and MIME audio/wav.                                     *)
C8_WavAsDocument ==
    (/\ last.op = "chatwoot" /\ converter.present /\ ~converter.ffmpeg
     /\ \E i \in CallsOf(last.calls, "download_file") : last.calls[i].mime = Wav)
    => /\ "send_audio_message" \notin Ops(last.calls)
       /\ \E i \in CallsOf(last.calls, "send_document_message") :
            /\ last.calls[i].name = <<"audio.", "wav">>
            /\ MimeOf(last.calls[i].body) = Wav

AntiLoopMatch ==
    \/ last.op = "chatwoot" /\ last.payload.isDict /\ GuardMatches(last.payload)
    \/ /\ last.op = "wuzapi" /\ ParsedMessage(last.payload) /\ last.payload.Info.IsFromMe
       /\ MarkerLive(SentKey(last.payload.Info.ID))

(* C10 as amended: an anti-loop match, in either direction, is answered       *)
(* HTTP 200 with status success.                                              *)
C10_AntiLoopIsSuccess ==
    AntiLoopMatch => (last.resp.code = 200 /\ last.resp.status = "success")

C10_Witness ==
    /\ last.op = "wuzapi" /\ AntiLoopMatch
    /\ last.resp.status = "success" /\ last.calls = <<>>

(* C10 as stated: an anti-loop match is answered HTTP 200 with status ignored *)
C10_AsStated ==
    AntiLoopMatch => (last.resp.code = 200 /\ last.resp.status = "ignored")

\* a WuzAPI event that passed validation and the instance guard
Guarded(p) == p.isDict /\ p.hasType /\ p.hasUserID /\ p.userID = handlerCfg.expected_instance_id

(* C11: an event of the expected instance whose type is none of QR,           *)
(* Connected, LoggedIn, Disconnected, LoggedOut, Message is answered 200      *)
(* ignored, reason not_message_event, and nothing is invoked for it.          *)
C11_OtherTypesIgnored ==
    (/\ last.op = "wuzapi" /\ Guarded(last.payload)
     /\ last.payload.type \notin {"QR", "Connected", "LoggedIn", "Disconnected", "LoggedOut", "Message"})
    => /\ last.resp.code = 200 /\ last.resp.status = "ignored" /\ last.resp.reason = "not_message_event"
       /\ last.calls = <<>>

C11_Witness ==
    /\ last.op = "wuzapi" /\ Guarded(last.payload) /\ last.payload.type = "ReadReceipt"
    /\ last.resp.reason = "not_message_event"

\* the notifier entry a session event of this type goes to, and the status of its session record
SessionRoute(type) ==
    IF type \in {"Connected", "LoggedIn"} THEN <<"notify_connected", "connected">>
    ELSE <<"notify_disconnected", "disconnected">>

(* C12: a Connected or LoggedIn event is always answered success with event   *)
(* "connected", a Disconnected or LoggedOut event success with event          *)
(* "disconnected", whether the notifier is absent, delivers or fails; a       *)
(* present notifier is invoked exactly once, with a session of that status.   *)
C12_SessionEventsBestEffort ==
    (/\ last.op = "wuzapi" /\ Guarded(last.payload)
     /\ last.payload.type \in {"Connected", "LoggedIn", "Disconnected", "LoggedOut"})
    => LET route == SessionRoute(last.payload.type)
           invoked == {i \in 1..Len(last.calls) : last.calls[i].op \in {"notify_connected", "notify_disconnected"}}
       IN /\ last.resp.code = 200 /\ last.resp.status = "success"
          /\ last.resp.data = <<<<"event", route[2]>>>>
          /\ IF handlerCfg.session_notifier
             THEN /\ Cardinality(invoked) = 1
                  /\ \A i \in invoked : last.calls[i].op = route[1] /\ last.calls[i].name = route[2]
             ELSE last.calls = <<>>

C12_Witness ==
    /\ last.op = "wuzapi" /\ Guarded(last.payload) /\ last.payload.type = "LoggedIn"
    /\ handlerCfg.session_notifier
    /\ \E i \in CallsOf(last.calls, "send_message") : last.calls[i].reply = NoId
    /\ last.resp.status = "success"

(* C13: for a Message event of the expected instance: when the factory       *)
(* yields no message the answer is 200 ignored, reason parse_error, and the   *)
(* sync use case is not invoked; otherwise the answer is success carrying     *)
(* message_id, message_type and sender, or 200 ignored, reason sync_failed.   *)
C13_MessageDispatch ==
    (last.op = "wuzapi" /\ Guarded(last.payload) /\ last.payload.type = "Message")
    => LET m == from_wuzapi_event(last.payload)
       IN IF ~m.parsed
          THEN /\ last.resp.code = 200 /\ last.resp.status = "ignored" /\ last.resp.reason = "parse_error"
               /\ last.calls = <<>>
          ELSE \/ /\ last.resp.code = 200 /\ last.resp.status = "success"
                  /\ last.resp.data = <<<<"message_id", m.message_id>>, <<"message_type", m.message_type>>,
                                        <<"sender", PhoneNumber_formatted(m.sender)>>>>
               \/ last.resp.code = 200 /\ last.resp.status = "ignored" /\ last.resp.reason = "sync_failed"

C15_StatusDerivation ==
    last.op = "session"
    => LET connected == last.payload.connected = <<TRUE>>
           loggedIn  == last.payload.loggedIn = <<TRUE>>
           qrcode    == last.payload.qrcode = <<QrImage>>
       IN /\ (connected /\ loggedIn) => last.resp.status = "connected"
          /\ (~(connected /\ loggedIn) /\ qrcode) => last.resp.status = "qr_pending"
          /\ (connected /\ ~loggedIn /\ ~qrcode) => last.resp.status = "connecting"
          /\ (~connected /\ ~qrcode) => last.resp.status = "disconnected"

C15_Witness ==
    /\ last.op = "session"
    /\ last.payload.connected = <<TRUE>> /\ last.payload.loggedIn = <<FALSE>>
    /\ last.payload.qrcode = <<QrImage>>
    /\ last.resp.status = "qr_pending"

(* C16: a Message event with Info.Type "media" and a non-empty MediaType is   *)
(* typed from MediaType through the wire-type table; with MediaType "ptt"    *)
(* the message the factory builds has type "audio".                          *)
C16_MediaTypeThroughTable ==
    (/\ last.op = "message" /\ last.resp.parsed
     /\ last.payload.Info.Type = "media"
     /\ last.payload.Info.MediaType \in DOMAIN TYPE_MAPPINGS)
    => last.resp.message_type = TYPE_MAPPINGS[last.payload.Info.MediaType]

(* C17: with a cache that stores what it is given, every Chatwoot message     *)
(* Sync creates for a self-sent WhatsApp message, on whichever content        *)
(* branch, has its synced_to_chatwoot:<id> marker in the cache when execute   *)
(* returns.                                                                   *)
C17_MarkerCoverage ==
    (/\ last.op = "wuzapi" /\ ParsedMessage(last.payload) /\ last.payload.Info.IsFromMe
     /\ (cache.kind = "memory" \/ cache.connected))
    => \A i \in 1..Len(last.calls) :
          (/\ last.calls[i].op \in {"send_message", "send_message_with_attachments"}
           /\ last.calls[i].reply # NoId)
          => MarkerLive(SyncedKey(last.calls[i].reply))

(* C18: with a cache that stores what it is given, the Chatwoot webhook of a  *)
(* message Sync created for a self-sent WhatsApp message is never forwarded   *)
(* to WhatsApp, however the webhook task and the sync task interleave.        *)
C18_NoForwardInWindow ==
    (/\ last.op = "chatwoot" /\ last.payload.isDict
     /\ last.payload.id \in relay.mirrored
     /\ (cache.kind = "memory" \/ cache.connected))
    => Ops(last.calls) \cap WuzapiSendOps = {}

(* C19: in the service as the registry wires it and with a cache that stores  *)
(* what it is given, the echo WuzAPI sends for a text the bridge relayed      *)
(* from Chatwoot (IsFromMe, the id the send returned) makes Sync create no    *)
(* Chatwoot message.                                                          *)
C19_EchoNotMirrored ==
    (/\ last.op = "wuzapi" /\ last.payload.Info.IsFromMe
     /\ last.payload.Info.ID \in relay.sent
     /\ (cache.kind = "memory" \/ cache.connected))
    => Created(last.calls) = {}

(* C20: the chain of relays one originating message triggers terminates:      *)
(* under fair scheduling of the webhook tasks, eventually no webhook is in    *)
(* flight and no marker write is pending, whichever cache adapter is active.  *)
C20_RelayTerminates ==
    <>[](relay.wz = {} /\ relay.cw = {} /\ relay.pending = {})

C22_MemoizedOnce ==
    tasks.finds <= 1 /\ tasks.convs <= 1

(* C23: no lock is held across search-then-create: a sync task sends the      *)
(* create-conversation request exactly when its cache read missed and its     *)
(* search found nothing, whatever the other tasks have done since; so two      *)
(* tasks that both searched before either create was answered both create.    *)
C23_CreateAfterEmptySearch ==
    \A t \in Callers :
        /\ tasks.posted[t] => tasks.saw[t] = {}
        /\ (tasks.pc[t] \in {"creating", "caching", "failed"} /\ tasks.saw[t] = {}) => tasks.posted[t]

\* two executions that started with a cache miss and no conversation have both sent the create request
C23_Witness ==
    /\ tasks.first = {}
    /\ \E t, u \in Callers : t # u /\ tasks.posted[t] /\ tasks.posted[u]
    /\ Cardinality(tasks.server) >= 2

(* C24: once the shutdown half of the lifespan has run cleanup_dependencies,   *)
(* every memoized reference of the registry is unconstructed: the Chatwoot     *)
(* adapter, the WuzAPI adapter, the cache, the media downloader, the session   *)
(* notifier, the session client and the audio converter.                       *)
C24_CleanupResetsAll ==
    reg.phase = "stopped" =>
        ~(reg.chatwoot \/ reg.wuzapi \/ reg.cache \/ reg.media \/ reg.notifier \/ reg.session \/ reg.audio)

\* the phone a sync request works for, and the Chatwoot messages it sent
SyncedPhone(p) == PhoneNumber_formatted(from_wuzapi_event(p).sender)
MessageSends(calls) == CallsOf(calls, "send_message") \cup CallsOf(calls, "send_message_with_attachments")

\* the sync request got past the contact step
ContactObtained(p, calls) ==
    /\ ParsedMessage(p)
    /\ \E i \in CallsOf(calls, "create_or_get_contact") : calls[i].reply # NoId

\* the adapter keeps what is written to it
Stores(c) == c.kind = "memory" \/ c.connected

(* C25: in a sync request that got its contact, create_or_get_conversation is  *)
(* called exactly when the cache read for the phone missed; an id it returns   *)
(* is in the cache under the phone key (TTL 3600 s) whatever the sends that    *)
(* follow it do, and every send comes after it; when no id is obtained the     *)
(* request fails and sends no message; and the phone's cache entry is either   *)
(* the one that was there or the id create_or_get_conversation returned.       *)
C25_ConversationResolution ==
    [][(last.op = "none" /\ last'.op = "wuzapi" /\ ContactObtained(last'.payload, last'.calls)) =>
        LET phone   == SyncedPhone(last'.payload)
            key     == ConvKey(phone)
            hit     == Truthy(get_conversation_id(cache, phone)[1])
            calls   == last'.calls
            creates == CallsOf(calls, "create_or_get_conversation")
        IN /\ (creates # {}) <=> ~hit
           /\ Cardinality(creates) <= 1
           /\ \A i \in creates :
                (calls[i].reply # NoId) =>
                    /\ \A j \in MessageSends(calls) : j > i
                    /\ Stores(cache) =>
                          /\ key \in DOMAIN cache'.store
                          /\ cache'.store[key] = [value |-> IntVal(calls[i].reply), expires |-> now + ConversationTTL]
           /\ (~hit /\ \A i \in creates : calls[i].reply = NoId) =>
                 (MessageSends(calls) = {} /\ last'.resp.reason = "sync_failed")
           /\ key \in DOMAIN cache'.store =>
                 \/ key \in DOMAIN cache.store /\ cache'.store[key] = cache.store[key]
                 \/ \E i \in creates : cache'.store[key].value = IntVal(calls[i].reply)
      ]_vars

\* the conversation was created on a miss, cached, and the send that followed it was refused
C25_Witness ==
    /\ last.op = "wuzapi" /\ ContactObtained(last.payload, last.calls)
    /\ \E i \in CallsOf(last.calls, "create_or_get_conversation") :
          /\ last.calls[i].reply # NoId
          /\ Live(cache, ConvKey(SyncedPhone(last.payload)))
          /\ cache.store[ConvKey(SyncedPhone(last.payload))].value = IntVal(last.calls[i].reply)
          /\ \E j \in CallsOf(last.calls, "send_message") : j > i /\ last.calls[j].reply = NoId

(* C26: a sync request that finds a live conversation id cached for its phone  *)
(* sends to that id and to no other, and never asks Chatwoot for the           *)
(* conversation; when Chatwoot refuses the send the request fails and the      *)
(* phone's cache entry is exactly what it was, value and expiry, so the next   *)
(* message of that phone meets the same id until the entry expires.            *)
C26_StaleIdKept ==
    [][(/\ last.op = "none" /\ last'.op = "wuzapi" /\ ContactObtained(last'.payload, last'.calls)
        /\ Live(cache, ConvKey(SyncedPhone(last'.payload)))) =>
        LET key   == ConvKey(SyncedPhone(last'.payload))
            calls == last'.calls
        IN /\ CallsOf(calls, "create_or_get_conversation") = {}
           /\ \A j \in MessageSends(calls) : IntVal(calls[j].to) = cache.store[key].value
           /\ key \in DOMAIN cache'.store /\ cache'.store[key] = cache.store[key]
           /\ (\E j \in MessageSends(calls) : calls[j].reply = NoId) => last'.resp.reason = "sync_failed"
      ]_vars

\* a send to the cached conversation was refused: the request failed and the entry is still live
C26_Witness ==
    /\ last.op = "wuzapi" /\ ContactObtained(last.payload, last.calls)
    /\ CallsOf(last.calls, "create_or_get_conversation") = {}
    /\ \E j \in MessageSends(last.calls) :
          /\ last.calls[j].reply = NoId
          /\ IntVal(last.calls[j].to) = cache.store[ConvKey(SyncedPhone(last.payload))].value
    /\ Live(cache, ConvKey(SyncedPhone(last.payload)))
    /\ last.resp.reason = "sync_failed"

(* C27: when create-or-get contact fails in a sync request, the request fails  *)
(* at once: the contact request is its last outbound call, so no conversation  *)
(* is created, no media downloaded and no message sent, and nothing is written *)
(* to the cache (the phone's conversation entry stays as it was).              *)
C27_ContactFailureAborts ==
    [][(/\ last.op = "none" /\ last'.op = "wuzapi" /\ ParsedMessage(last'.payload)
        /\ \E i \in CallsOf(last'.calls, "create_or_get_contact") : last'.calls[i].reply = NoId) =>
        LET key   == ConvKey(SyncedPhone(last'.payload))
            calls == last'.calls
        IN /\ calls[Len(calls)].op = "create_or_get_contact"
           /\ Cardinality(CallsOf(calls, "create_or_get_contact")) = 1
           /\ Ops(calls) \cap {"create_or_get_conversation", "download_from_wuzapi_endpoint",
                               "send_message", "send_message_with_attachments"} = {}
           /\ last'.resp.reason = "sync_failed" /\ last'.resp.status # "success"
           /\ \A k \in DOMAIN cache'.store : k \in DOMAIN cache.store /\ cache'.store[k] = cache.store[k]
           /\ key \in DOMAIN cache.store => key \in DOMAIN cache'.store
      ]_vars

\* the contact request of a text message was refused and nothing followed it
C27_Witness ==
    /\ last.op = "wuzapi" /\ last.payload = TextEvent("M1", Direct, FALSE)
    /\ \E i \in CallsOf(last.calls, "create_or_get_contact") : last.calls[i].reply = NoId /\ i = Len(last.calls)
    /\ last.resp.reason = "sync_failed"

\* the ids whose synced_to_chatwoot marker a step wrote
MarkersWritten(before, after) ==
    {id \in 1..(MaxCwMsgId + 1) :
        /\ ConvKey(SyncedKey(id)) \in DOMAIN after.store
        /\ (ConvKey(SyncedKey(id)) \in DOMAIN before.store
               => after.store[ConvKey(SyncedKey(id))] # before.store[ConvKey(SyncedKey(id))])}

(* C28: for a TEXT message, with a cache that keeps what is written, the       *)
(* synced_to_chatwoot markers the sync request writes are those of the ids     *)
(* Chatwoot returned for a self-sent message, each with TTL 30 s; a message    *)
(* that is not self-sent writes none; and every message is sent as outgoing    *)
(* when the WhatsApp message is self-sent and as incoming otherwise.           *)
C28_TextMarker ==
    [][(/\ last.op = "none" /\ last'.op = "wuzapi" /\ ParsedMessage(last'.payload)
        /\ from_wuzapi_event(last'.payload).message_type = "text" /\ Stores(cache)) =>
        LET message == from_wuzapi_event(last'.payload)
            calls   == last'.calls
            sent    == {calls[j].reply : j \in {i \in CallsOf(calls, "send_message") : calls[i].reply # NoId}}
        IN /\ MarkersWritten(cache, cache') = IF message.is_from_me THEN sent ELSE {}
           /\ \A id \in MarkersWritten(cache, cache') :
                 cache'.store[ConvKey(SyncedKey(id))] = [value |-> StrOne, expires |-> now + AntiLoopTextTTL]
           /\ \A j \in MessageSends(calls) :
                 calls[j].name = IF message.is_from_me THEN "outgoing" ELSE "incoming"
      ]_vars

\* a self-sent text was sent as outgoing and its marker is in the cache
C28_Witness ==
    /\ last.op = "wuzapi" /\ last.payload = TextEvent("M1", Direct, TRUE)
    /\ \E j \in CallsOf(last.calls, "send_message") :
          /\ last.calls[j].reply # NoId /\ last.calls[j].name = "outgoing"
          /\ MarkerLive(SyncedKey(last.calls[j].reply))
          /\ cache.store[ConvKey(SyncedKey(last.calls[j].reply))].expires = now + AntiLoopTextTTL

\* the cache the request found holds the key, past its expiry time (only the
\* in-memory adapter keeps such an entry; Redis has dropped it)
ExpiredIn(c, key) == key \in DOMAIN c.store /\ now >= c.store[key].expires

(* C29: a synced_to_chatwoot marker suppresses only while it is live: a         *)
(* Chatwoot webhook whose id has no live marker in the cache it finds (the      *)
(* marker's TTL has run out, or there never was one) is not skipped by the      *)
(* loop guard: if it is eligible and deliverable it is sent to WhatsApp, and    *)
(* if it is not eligible it is not answered as a success.                       *)
C29_ExpiredMarkerForwards ==
    (/\ last.op = "chatwoot" /\ last.payload.isDict /\ last.payload.id # 0
     /\ ~Live(last.found, ConvKey(SyncedKey(last.payload.id))))
    => /\ (/\ FourConditions(last.payload) /\ extract_phone(last.payload) # <<>>
           /\ last.payload.content # <<>> /\ Deliverable(last.payload, last.calls))
          => Ops(last.calls) \cap WuzapiSendOps # {}
       /\ ~FourConditions(last.payload) => last.resp.status # "success"

\* the marker of message 1 was in the cache, expired, and the webhook for it went to WhatsApp
C29_Witness ==
    /\ last.op = "chatwoot" /\ last.payload = Eligible(1, Hola, <<>>)
    /\ ExpiredIn(last.found, ConvKey(SyncedKey(1)))
    /\ \E i \in CallsOf(last.calls, "send_text_message") : last.calls[i].body = Hola

\* the sync request reached the delivery of a multimedia message: it has its
\* contact and its conversation, cached or just created
MultimediaReached(p, calls, found) ==
    /\ ContactObtained(p, calls)
    /\ from_wuzapi_event(p).message_type \in {"image", "video", "audio", "ptt", "document", "sticker"}
    /\ \/ Live(found, ConvKey(SyncedPhone(p)))
       \/ \E i \in CallsOf(calls, "create_or_get_conversation") : calls[i].reply # NoId

(* C30: in multimedia processing, when the download returns nothing the sync   *)
(* request fails, sends nothing to Chatwoot (no attachment, no placeholder)    *)
(* and writes no marker; when the media info cannot be extracted it makes no   *)
(* download and sends exactly one message, the text [<TYPE> - Error Info].     *)
C30_MultimediaFailures ==
    [][(last.op = "none" /\ last'.op = "wuzapi" /\ MultimediaReached(last'.payload, last'.calls, cache)) =>
        LET message   == from_wuzapi_event(last'.payload)
            calls     == last'.calls
            downloads == CallsOf(calls, "download_from_wuzapi_endpoint")
        IN /\ (\E i \in downloads : calls[i].reply = Refused) =>
                 /\ MessageSends(calls) = {}
                 /\ last'.resp.reason = "sync_failed"
                 /\ MarkersWritten(cache, cache') = {}
           /\ extract_media_info(message) = None =>
                 /\ downloads = {}
                 /\ Cardinality(MessageSends(calls)) = 1
                 /\ \A j \in MessageSends(calls) :
                       /\ calls[j].op = "send_message"
                       /\ calls[j].body = group_prefix(message,
                              <<"[", Upper(media_type_map(message.message_type)), " - Error Info]">>)
                 /\ MarkersWritten(cache, cache') = {}
      ]_vars

\* the download of a self-sent image was refused: the request failed and sent nothing
C30_Witness ==
    /\ last.op = "wuzapi" /\ MultimediaReached(last.payload, last.calls, last.found)
    /\ from_wuzapi_event(last.payload).is_from_me
    /\ \E i \in CallsOf(last.calls, "download_from_wuzapi_endpoint") : last.calls[i].reply = Refused
    /\ MessageSends(last.calls) = {}
    /\ last.resp.reason = "sync_failed"

\* the media info of an image is missing: the placeholder is the one message sent
C30_PlaceholderSent ==
    /\ last.op = "wuzapi" /\ MultimediaReached(last.payload, last.calls, last.found)
    /\ extract_media_info(from_wuzapi_event(last.payload)) = None
    /\ \E j \in CallsOf(last.calls, "send_message") : last.calls[j].body = <<"[", "IMAGE", " - Error Info]">>

\* a DOCUMENT message whose document is carried only inside documentWithCaptionMessage
NestedDocument(p) ==
    /\ ParsedMessage(p) /\ from_wuzapi_event(p).message_type = "document"
    /\ p.Message.keys = {"documentWithCaptionMessage"} /\ p.Message.mediaFields

(* C31: for a DOCUMENT message that carries its document only as               *)
(* documentWithCaptionMessage.message.documentMessage, the sync request         *)
(* downloads the file and uploads it as an attachment; it does not send the     *)
(* [DOCUMENT - Error Info] placeholder.                                         *)
C31_NestedDocumentUploaded ==
    (/\ last.op = "wuzapi" /\ NestedDocument(last.payload)
     /\ MultimediaReached(last.payload, last.calls, last.found))
    => /\ CallsOf(last.calls, "download_from_wuzapi_endpoint") # {}
       /\ \A j \in CallsOf(last.calls, "send_message") :
             last.calls[j].body # <<"[", "DOCUMENT", " - Error Info]">>

(* C32: the loop guard of Send comes before the eligibility filter and before  *)
(* the destination is extracted: a payload whose id has a live marker in the    *)
(* cache it finds is answered success with no outbound call, also when it       *)
(* fails the filter or has no destination; a payload without an id passes no    *)
(* guard: nothing is read from (or evicted in) the cache, and it is forwarded   *)
(* when it is eligible with a destination and text.                             *)
C32_GuardFirst ==
    (last.op = "chatwoot" /\ last.payload.isDict)
    => /\ (last.payload.id # 0 /\ Live(last.found, ConvKey(SyncedKey(last.payload.id))))
          => (last.resp.status = "success" /\ last.calls = <<>> /\ cache = last.found)
       /\ last.payload.id = 0
          => /\ \A k \in DOMAIN last.found.store : k \in DOMAIN cache.store
             /\ (/\ FourConditions(last.payload) /\ extract_phone(last.payload) # <<>>
                 /\ last.payload.content # <<>> /\ last.payload.attachments = <<>>)
                => Ops(last.calls) = {"send_text_message"}

\* a message created by a contact, which the filter would refuse, is answered success by the guard
C32_Witness ==
    /\ last.op = "chatwoot" /\ last.payload = [Eligible(1, Hola, <<>>) EXCEPT !.sender_type = "contact"]
    /\ Live(last.found, ConvKey(SyncedKey(1)))
    /\ last.resp.status = "success" /\ last.calls = <<>>

\* a payload without an id is forwarded while the marker of message 1 is live
C32_NoIdForwarded ==
    /\ last.op = "chatwoot" /\ last.payload = Eligible(0, Hola, <<>>)
    /\ Live(last.found, ConvKey(SyncedKey(1)))
    /\ Ops(last.calls) = {"send_text_message"}

\* the WuzAPI send calls of a request, and the operations an attachment of a type goes out through
WuzapiSends(calls) == {i \in 1..Len(calls) : calls[i].op \in WuzapiSendOps}
OpsFor(file_type) ==
    CASE file_type = "image" -> {"send_image_message"}
      [] file_type = "video" -> {"send_video_message"}
      [] file_type = "audio" -> {"send_audio_message", "send_document_message"}
      [] file_type = "file"  -> {"send_document_message"}
      [] OTHER -> {"send_text_message"}

\* the payload passed the loop guard and the filter, and has a destination
Dispatched(p, found) ==
    /\ p.isDict /\ ~(p.id # 0 /\ Live(found, ConvKey(SyncedKey(p.id))))
    /\ FourConditions(p) /\ extract_phone(p) # <<>>

(* C33: Send dispatch.  With attachments only the first one is processed: at   *)
(* most one WuzAPI send is made, through the operation of the first             *)
(* attachment's type, and the text is not sent as a message of its own; with    *)
(* no attachment and a text, the text is sent as one plain text message; with   *)
(* neither, nothing is sent and the request does not succeed.                   *)
C33_SendDispatch ==
    (last.op = "chatwoot" /\ Dispatched(last.payload, last.found))
    => LET p == last.payload
           calls == last.calls
       IN /\ p.attachments # <<>> =>
                /\ Cardinality(WuzapiSends(calls)) <= 1
                /\ \A i \in WuzapiSends(calls) : calls[i].op \in OpsFor(p.attachments[1].file_type)
                /\ p.attachments[1].file_type \in {"image", "video", "audio", "file"}
                      => CallsOf(calls, "send_text_message") = {}
          /\ (p.attachments = <<>> /\ p.content # <<>>) =>
                /\ Cardinality(WuzapiSends(calls)) = 1
                /\ \A i \in WuzapiSends(calls) :
                      /\ calls[i].op = "send_text_message"
                      /\ calls[i].to = extract_phone(p) /\ calls[i].body = p.content
          /\ (p.attachments = <<>> /\ p.content = <<>>) =>
                (calls = <<>> /\ last.resp.status # "success")

\* of an image and a file attached to a text, the image alone went out
C33_Witness ==
    /\ last.op = "chatwoot"
    /\ last.payload = Eligible(2, Hola, <<Attachment("image", Url), Attachment("file", Url)>>)
    /\ Ops(last.calls) = {"send_image_message"} /\ Len(last.calls) = 1

\* WuzAPI refused the call
RefusedSend(c) == c.reply = Refused

(* C34: no retries.  A request to Send invokes at most one WuzAPI send          *)
(* operation (text, image, video, document or audio) on every path, the         *)
(* document fallbacks of an audio included; a send that WuzAPI refused is       *)
(* never followed by another one, and the request does not succeed.             *)
C34_NoRetries ==
    (last.op = "chatwoot" /\ last.payload.isDict)
    => /\ Cardinality(WuzapiSends(last.calls)) <= 1
       /\ \A i \in WuzapiSends(last.calls) :
             RefusedSend(last.calls[i]) => (i = Len(last.calls) /\ last.resp.status # "success")

\* the document fallback of an audio was refused, and nothing followed
C34_Witness ==
    /\ last.op = "chatwoot" /\ last.payload.isDict /\ last.payload.attachments # <<>>
    /\ last.payload.attachments[1].file_type = "audio"
    /\ \E i \in CallsOf(last.calls, "send_document_message") : RefusedSend(last.calls[i]) /\ i = Len(last.calls)
    /\ Cardinality(WuzapiSends(last.calls)) = 1
    /\ last.resp.status # "success"

\* the bytes a data URI carries, and the content types the request's downloads answered with
BytesOf(uri) == uri[Len(uri)]
Downloaded(calls) == {calls[i].mime : i \in {j \in CallsOf(calls, "download_file") : calls[j].reply = Accepted(TRUE)}}

(* C35: with a converter configured, send_audio_message is invoked only with   *)
(* the downloaded bytes when their content type needs no conversion, or with    *)
(* the converted bytes and content type audio/ogg; codecs=opus; when the        *)
(* conversion is needed and ffmpeg is missing only the document fallback is     *)
(* invoked, and whenever the document fallback is invoked (ffmpeg missing, or   *)
(* the conversion returned nothing) it carries the original bytes.              *)
C35_AudioPipeline ==
    (last.op = "chatwoot" /\ last.payload.isDict /\ converter.present)
    => \A ctype \in Downloaded(last.calls) :
          /\ \A i \in CallsOf(last.calls, "send_audio_message") :
                IF needs_conversion(ctype)
                THEN /\ converter.ffmpeg
                     /\ BytesOf(last.calls[i].body) = "<ogg-opus-bytes>"
                     /\ last.calls[i].mime = OggOpus
                ELSE /\ BytesOf(last.calls[i].body) = "<source-bytes>"
                     /\ last.calls[i].mime = ctype
          /\ \A i \in CallsOf(last.calls, "send_document_message") :
                /\ needs_conversion(ctype)
                /\ BytesOf(last.calls[i].body) = "<source-bytes>"
                /\ CallsOf(last.calls, "send_audio_message") = {}
          /\ (needs_conversion(ctype) /\ ~converter.ffmpeg)
                => Ops(last.calls) \cap WuzapiSendOps = {"send_document_message"}
          /\ Cardinality(WuzapiSends(last.calls)) = 1

\* a WAV was converted and went out as a voice note with the OGG/Opus content type
C35_Witness ==
    /\ last.op = "chatwoot" /\ converter.present /\ converter.ffmpeg
    /\ Downloaded(last.calls) = {Wav}
    /\ \E i \in CallsOf(last.calls, "send_audio_message") :
          BytesOf(last.calls[i].body) = "<ogg-opus-bytes>" /\ last.calls[i].mime = OggOpus

\* the conversion of a WAV returned nothing and the original bytes went out as a document
C35_FallbackAfterFailure ==
    /\ last.op = "chatwoot" /\ converter.present /\ converter.ffmpeg
    /\ Downloaded(last.calls) = {Wav}
    /\ \E i \in CallsOf(last.calls, "send_document_message") : BytesOf(last.calls[i].body) = "<source-bytes>"

(* C36: the destination of a send is the conversation's source id with + and   *)
(* group_ stripped; when nothing is left the request fails and no WuzAPI send   *)
(* is invoked; and for the source id Sync derives from an accepted direct-chat  *)
(* JID (its formatted phone) the destination is the JID's clean digits.         *)
C36_DestinationDerivation ==
    last.op = "destination"
    => LET s     == last.payload.source_id
           jid   == last.payload.jid
           phone == Remove(Remove(s, "+"), "group_")
       IN /\ phone = <<>> => (last.resp = FALSE /\ last.calls = <<>>)
          /\ phone # <<>> =>
                /\ Len(last.calls) = 1
                /\ last.calls[1].op = "send_text_message" /\ last.calls[1].to = phone
          /\ (jid # <<>> /\ ~PhoneNumber_is_group(jid) /\ ~PhoneNumber_is_status(jid)) =>
                /\ AllDigits(PhoneNumber_clean(jid))
                /\ last.calls[1].to = PhoneNumber_clean(jid)

\* the text for the conversation of 573001234567:12345@s.whatsapp.net went to 573001234567
C36_Witness ==
    /\ last.op = "destination"
    /\ last.payload.jid = <<"573001234567", ":", "12345", "@s.whatsapp.net">>
    /\ last.payload.source_id = <<"+", "573001234567">>
    /\ last.calls[1].to = <<"573001234567">>

\* a source id that holds no phone: the request failed and sent nothing
C36_EmptyDestination ==
    /\ last.op = "destination" /\ last.payload.source_id = <<"+", "group_">>
    /\ last.resp = FALSE /\ last.calls = <<>>

(* C37: execute answers every text command with exactly one message through    *)
(* respond, into the conversation it was given, and returns whether Chatwoot   *)
(* took that message; a session operation that failed is answered with its     *)
(* error text, and the result is still the delivery's; when parsing the        *)
(* command faults, nothing is sent and the result is false.                    *)
SessionErrorTexts ==
    [get_status |-> {<<"<status-error>">>, <<"<qr-error>">>}, connect |-> {<<"<connect-error>">>},
     disconnect |-> {<<"<disconnect-error>">>}, logout |-> {<<"<logout-error>">>}]

C37_OneResponse ==
    last.op = "responded"
    => LET calls == last.calls
           sends == MessageSends(calls)
       IN IF last.payload.message_text.isStr
          THEN /\ Cardinality(sends) = 1
               /\ \A i \in sends :
                     /\ i = Len(calls)
                     /\ calls[i].to = last.payload.conversation_id
                     /\ calls[i].name = "incoming"
                     /\ last.resp = (calls[i].reply # NoId)
                     /\ \A j \in 1..Len(calls) :
                           (\/ calls[j].op = "get_status" /\ calls[j].reply = <<>>
                            \/ calls[j].op \in {"connect", "disconnect", "logout"} /\ calls[j].reply = FALSE) =>
                              calls[i].body \in SessionErrorTexts[calls[j].op]
          ELSE last.resp = FALSE /\ calls = <<>>

\* /connect failed at WuzAPI: the error text was delivered and the result is true
C37_Witness ==
    /\ last.op = "responded"
    /\ last.payload.message_text.s = <<"/", "connect">>
    /\ Len(last.calls) = 2
    /\ last.calls[1].op = "connect" /\ last.calls[1].reply = FALSE
    /\ last.calls[2].op = "send_message" /\ last.calls[2].body = <<"<connect-error>">>
    /\ last.calls[2].to = last.payload.conversation_id
    /\ last.resp = TRUE

\* a text that is no command is answered as well
C37_UnknownAnswered ==
    /\ last.op = "responded"
    /\ last.payload.message_text.s = <<"hola">>
    /\ Len(last.calls) = 1
    /\ last.calls[1].body = <<"<unknown-command>", "hola">>
    /\ last.resp = TRUE

\* a message_text that is no string: false, and nothing was sent
C37_ParseFault ==
    /\ last.op = "responded"
    /\ ~last.payload.message_text.isStr
    /\ last.resp = FALSE /\ last.calls = <<>>

(* C38: the qr command asks get_qr first and get_status only when get_qr      *)
(* gave nothing; then an unavailable status is answered with the error text,  *)
(* a connected session with the already-connected text, a QR held by the      *)
(* status with the QR response, anything else with the hint to run /connect;  *)
(* the QR response is given only when a non-empty QR string was obtained.     *)
QrCommand == last.op = "responded" /\ last.payload.message_text.isStr
             /\ SessionCommand_parse(last.payload.message_text.s) = "qr"
SessionCalls(calls) == SelectSeq(calls, LAMBDA c : c.op \in {"get_qr", "get_status", "connect", "disconnect", "logout"})
QrAnswer(c) == c.body = <<"<scan-qr>">>

C38_QrOrder ==
    QrCommand
    => LET asked  == SessionCalls(last.calls)
           answer == last.calls[Len(last.calls)]
       IN /\ asked # <<>> /\ asked[1].op = "get_qr"
          /\ asked = SubSeq(last.calls, 1, Len(asked))
          /\ IF asked[1].reply # None
             THEN /\ Len(asked) = 1
                  /\ asked[1].reply # ""
                  /\ QrAnswer(answer)
             ELSE /\ Len(asked) = 2 /\ asked[2].op = "get_status"
                  /\ answer.body =
                        (IF asked[2].reply = <<>> THEN <<"<qr-error>">>
                         ELSE IF asked[2].reply[1].status = "connected" THEN <<"<already-connected>">>
                         ELSE IF NonEmpty(asked[2].reply[1].qr_code) THEN <<"<scan-qr>">>
                         ELSE <<"<use-connect>">>)
          /\ (answer.op = "send_message_with_attachments") =>
                (QrAnswer(answer) /\ answer.mime = "image/png")

\* get_qr had nothing, the status held a QR: two session calls, then the QR image
C38_Witness ==
    /\ QrCommand
    /\ Len(last.calls) = 3
    /\ last.calls[1].op = "get_qr" /\ last.calls[1].reply = None
    /\ last.calls[2].op = "get_status" /\ last.calls[2].reply # <<>>
    /\ last.calls[2].reply[1].status = "qr_pending"
    /\ last.calls[3].op = "send_message_with_attachments" /\ QrAnswer(last.calls[3])

\* get_qr answered: the status is never asked
C38_QrDirect ==
    /\ QrCommand
    /\ Len(last.calls) = 2
    /\ last.calls[1].op = "get_qr" /\ last.calls[1].reply = "<qr-base64>"
    /\ last.calls[2].op = "send_message_with_attachments"

\* no QR anywhere and the session is not connected: the hint to run /connect
C38_UseConnect ==
    /\ QrCommand
    /\ Len(last.calls) = 3
    /\ last.calls[2].op = "get_status"
    /\ last.calls[3].body = <<"<use-connect>">>

(* C39: a QR event that carries no QR code, or an empty one, never reaches the *)
(* notifier and execute is false; any other QR event reaches notify_qr exactly *)
(* once and execute is what notify_qr returns; the handler answers success     *)
(* with event qr_notified exactly when that is true, and otherwise ignored     *)
(* with reason qr_notification_failed.                                         *)
QrEvent == last.op = "wuzapi" /\ Guarded(last.payload) /\ last.payload.type = "QR" /\ handlerCfg.qr_use_case
QrDelivered(calls) == \E i \in CallsOf(calls, "send_message_with_attachments") : calls[i].reply # NoId

C39_QrEvent ==
    QrEvent
    => LET invoked == CallsOf(last.calls, "notify_qr")
       IN /\ IF last.payload.qrCodeBase64 \in {None, ""}
             THEN last.calls = <<>>
             ELSE Cardinality(invoked) = 1 /\ last.calls[1].op = "notify_qr"
          /\ last.resp.code = 200
          /\ IF QrDelivered(last.calls)
             THEN last.resp.status = "success" /\ last.resp.data = <<<<"event", "qr_notified">>>>
             ELSE last.resp.status = "ignored" /\ last.resp.reason = "qr_notification_failed"

\* the QR image reached Chatwoot and the event was answered qr_notified
C39_Witness ==
    /\ QrEvent /\ last.payload.qrCodeBase64 = "<qr-base64>"
    /\ Cardinality(CallsOf(last.calls, "notify_qr")) = 1
    /\ QrDelivered(last.calls)
    /\ last.resp.status = "success"

\* notify_qr was invoked and failed: ignored, qr_notification_failed
C39_NotifierFailed ==
    /\ QrEvent /\ last.payload.qrCodeBase64 = "<not-base64>"
    /\ Cardinality(CallsOf(last.calls, "notify_qr")) = 1
    /\ last.resp.status = "ignored" /\ last.resp.reason = "qr_notification_failed"

\* an empty QR code: the notifier was not invoked
C39_EmptyCode ==
    /\ QrEvent /\ last.payload.qrCodeBase64 = ""
    /\ last.calls = <<>> /\ last.resp.reason = "qr_notification_failed"

(* C40: in the in-memory cache a read of k returns the value last written     *)
(* under k at every time strictly before that write's time plus its TTL, and   *)
(* nothing from that instant on; a read that finds the entry expired removes   *)
(* it; a later write replaces both value and expiry; and no read, write or     *)
(* delete of k changes what is stored under another key.                       *)
OtherKeysKept ==
    \A p \in CachePhones \ {last.payload.phone} :
        /\ (ConvKey(p) \in DOMAIN cache.store) = (ConvKey(p) \in DOMAIN last.found.store)
        /\ ConvKey(p) \in DOMAIN cache.store => cache.store[ConvKey(p)] = last.found.store[ConvKey(p)]

C40_MemoryTTL ==
    LET key == ConvKey(last.payload.phone)
        wr  == last.payload.written[last.payload.phone]
    IN /\ last.op = "get" =>
             /\ last.resp = (IF wr.set /\ now < wr.at + wr.ttl THEN wr.value ELSE NoValue)
             /\ (wr.set /\ now >= wr.at + wr.ttl) => key \notin DOMAIN cache.store
             /\ (wr.set /\ now < wr.at + wr.ttl) => cache = last.found
       /\ last.op = "set" =>
             /\ key \in DOMAIN cache.store
             /\ cache.store[key] = [value |-> wr.value, expires |-> now + wr.ttl]
       /\ last.op \in {"get", "set", "delete"} => OtherKeysKept

\* a read at the expiry instant of an entry written two seconds earlier: nothing, and the entry is gone
C40_Witness ==
    /\ last.op = "get" /\ last.payload.phone = <<"573001234567">>
    /\ last.payload.written[<<"573001234567">>].set
    /\ last.payload.written[<<"573001234567">>].ttl = 2
    /\ now = last.payload.written[<<"573001234567">>].at + 2
    /\ ConvKey(<<"573001234567">>) \in DOMAIN last.found.store
    /\ last.resp = NoValue
    /\ ConvKey(<<"573001234567">>) \notin DOMAIN cache.store
    /\ ConvKey(<<"12345">>) \in DOMAIN cache.store

\* a read one second before the expiry instant returns the value
C40_LiveRead ==
    /\ last.op = "get"
    /\ last.payload.written[last.payload.phone].set
    /\ now + 1 = last.payload.written[last.payload.phone].at + last.payload.written[last.payload.phone].ttl
    /\ last.resp = last.payload.written[last.payload.phone].value

\* a write over an entry that has a different value and a later expiry
C40_Overwrite ==
    /\ last.op = "set"
    /\ ConvKey(last.payload.phone) \in DOMAIN last.found.store
    /\ last.found.store[ConvKey(last.payload.phone)].value # cache.store[ConvKey(last.payload.phone)].value
    /\ last.found.store[ConvKey(last.payload.phone)].expires > cache.store[ConvKey(last.payload.phone)].expires

====
